---- MODULE Spec2Model ----
(***************************************************************************)
(* A model of the TSP algorithm library of konard/sonar: the exact solvers *)
(* (brute-force.js), 2-opt (two-opt.js), greedy edge (greedy-edge.js) and  *)
(* the other tour constructors and improvers.                              *)
(*                                                                         *)
(* A Number is a non-negative integer count of quanta with at most         *)
(* Precision significant bits, and an addition rounds its exact result to  *)
(* such a number, to nearest, ties to even (a JavaScript double keeps 53   *)
(* bits; the unit square is scaled by 1000).  A tour is a sequence of city *)
(* ids; position p of the source's 0-based array is element p+1 of the     *)
(* sequence.                                                               *)
(***************************************************************************)
EXTENDS Integers, Sequences, FiniteSets, TLC

VARIABLES
    n,          \* number of cities of the instance
    graph,      \* distance matrix graph[i][j], i, j in 0..n-1
    stack,      \* the exact-solver functions now executing, outermost first
    search,     \* the locals of the solver at the top of the stack
    exactRet,   \* per exact entry point: what the caller's call returned
    invoked,    \* the solvers findOptimal has invoked
    twoOpt,     \* the call of TwoOpt.improve: its arguments, locals and position
    greedy,     \* the call of GreedyEdge.generateTour: its locals and position
    points,     \* the point list given to the heuristics, <<>> when none is
    call,       \* the call of a constructor that returns at once, or of zigzag
    anneal,     \* the call of SimulatedAnnealing.optimize: its locals and position
    genetic     \* the call of GeneticAlgorithm.optimize: its locals and position

vars == <<n, graph, stack, search, exactRet, invoked, twoOpt, greedy, points, call,
         anneal, genetic>>

\* The variables of the point list and of the calls that take it.
restVars == <<points, call, anneal, genetic>>

\* The variables of the exact solvers.
exactVars == <<stack, search, exactRet, invoked>>

(***************************************************************************)
(* Bounds of the explored instances.                                       *)
(***************************************************************************)
\* Largest city count whose matrices are enumerated exhaustively.
MaxN == 4

\* Largest explicit maxIterations passed to TwoOpt.improve (besides the default).
MaxIterCap == 2

\* Significant bits of a Number.
Precision == 13

\* Largest maxIterations passed to SimulatedAnnealing.optimize.
MaxAnnealIterations == 2

\* Largest populationSize and generations passed to GeneticAlgorithm.optimize.
MaxPopulation == 2
MaxGenerations == 1

\* Largest of the short lengths given to calculateEfficiency.
MaxLength == 8

\* The city count of the tests' instance (testPoints, the unit square).
TestN == 4

\* The city count of the tests' infeasible instance (largeGraph).
LargeN == 25

\* Edge lengths of the exhaustively enumerated matrices (0 = coincident
\* points): three values up to the test instance's size, two beyond it.
DistValues(k) == IF k <= TestN THEN {0, 1, 2} ELSE {0, 1}

(***************************************************************************)
(* JavaScript values.                                                      *)
(***************************************************************************)
\* Infinity: larger than every finite sum the model can form.
Infinity == 1000000000

\* undefined, as read from a Map that has no such key.
Undefined == -2

\* null, as returned by findOptimal.
Null == [kind |-> "null"]

\* No value yet: the call has not returned.
NoValue == [kind |-> "none"]

\* A TourResult {tour, length}.
TourResult(tour, length) == [kind |-> "result", tour |-> tour, length |-> length]

Cities(k) == 0 .. (k - 1)

\* Array.from({length: k}, (_, i) => i)
Identity(k) == [p \in 1 .. k |-> p - 1]

RECURSIVE Pow2(_)
Pow2(i) == IF i <= 0 THEN 1 ELSE 2 * Pow2(i - 1)

\* (1 << i): the shift count is taken modulo 32; read as an unsigned bit.
Shl1(i) == Pow2(i % 32)

\* mask & (1 << i), as a truth value
HasBit(mask, i) == (mask \div Shl1(i)) % 2 = 1

\* mask ^ (1 << i)
FlipBit(mask, i) == IF HasBit(mask, i) THEN mask - Shl1(i) ELSE mask + Shl1(i)

\* The distance between neighbouring Numbers at the magnitude of x.
RECURSIVE Spacing(_, _)
Spacing(x, q) == IF x < q * Pow2(Precision) THEN q ELSE Spacing(x, 2 * q)

\* The Number an exact result x is rounded to.
ToNumber(x) ==
    IF x >= Infinity THEN Infinity
    ELSE LET q == Spacing(x, 1)
             lo == x - (x % q)
         IN  IF 2 * (x % q) < q THEN lo
             ELSE IF 2 * (x % q) > q THEN lo + q
             ELSE IF (lo \div q) % 2 = 0 THEN lo
             ELSE lo + q

\* a + b on Numbers
Plus(a, b) == IF a = Infinity \/ b = Infinity THEN Infinity ELSE ToNumber(a + b)

(***************************************************************************)
(* Instances: symmetric non-negative matrices with a zero diagonal.        *)
(***************************************************************************)
Pairs(k) == {pr \in Cities(k) \X Cities(k) : pr[1] < pr[2]}

MatrixOf(k, w) ==
    [i \in Cities(k) |-> [j \in Cities(k) |->
        IF i = j THEN 0 ELSE IF i < j THEN w[<<i, j>>] ELSE w[<<j, i>>]]]

SymGraphs(k) == {MatrixOf(k, w) : w \in [Pairs(k) -> DistValues(k)]}

\* Edge lengths of mixed magnitude: one quantum, and two lengths that use a
\* Number's leading bit.  A sum of two long edges has more significant bits
\* than a Number keeps, so it is rounded.
LongValues == {1, Pow2(Precision - 1), Pow2(Precision - 1) + 1}

LongGraphs(k) == {MatrixOf(k, w) : w \in [Pairs(k) -> LongValues]}

\* utils.js createDistanceMatrix on the unit square (0,0),(1,0),(1,1),(0,1),
\* in thousandths: side 1000, diagonal 1414.
SquareSide == 1000
SquareDiagonal == 1414
SquareGraph ==
    [i \in Cities(4) |-> [j \in Cities(4) |->
        IF i = j THEN 0
        ELSE IF (i - j) % 2 = 0 THEN SquareDiagonal ELSE SquareSide]]

\* The matrix of the findOptimal test, Array(k).fill(1) in every row.
FilledGraph(k) == [i \in Cities(k) |-> [j \in Cities(k) |-> 1]]

(***************************************************************************)
(* utils.js                                                                *)
(***************************************************************************)
\* The loop without its last pass, the one of the edge back to tour[0].
RECURSIVE TourSumOpen(_, _, _, _)
TourSumOpen(tour, g, i, total) ==
    IF i >= Len(tour) - 1 THEN total
    ELSE TourSumOpen(tour, g, i + 1,
                     Plus(total, g[tour[i + 1]][tour[((i + 1) % Len(tour)) + 1]]))

\* The loop from index i on, totalDistance being total when it gets there;
\* line 57 takes the sum once and the next pass starts from its value.
RECURSIVE TourSum(_, _, _, _)
TourSum(tour, g, i, total) ==
    IF i >= Len(tour) THEN total
    ELSE CHOOSE result \in
             {TourSum(tour, g, i + 1, totalDistance) :
                 totalDistance \in
                     {Plus(total, g[tour[i + 1]][tour[((i + 1) % Len(tour)) + 1]])}} : TRUE

calculateTourLength(tour, g) == TourSum(tour, g, 0, 0)

\* calculateMST, the scan of lines 78-90 from the pair (i, j) numbered
\* p = i * k + j on: the edge kept so far is best.  A zero entry is falsy.
RECURSIVE mstScan(_, _, _, _, _)
mstScan(g, k, selected, p, best) ==
    IF ~(p < k * k) THEN best
    ELSE LET i == p \div k
             j == p % k
         IN  IF selected[i] /\ ~selected[j] /\ g[i][j] # 0 /\ best.min > g[i][j]
             THEN mstScan(g, k, selected, p + 1, [min |-> g[i][j], x |-> i, y |-> j])
             ELSE mstScan(g, k, selected, p + 1, best)

\* The while loop of lines 75-94.
RECURSIVE mstLoop(_, _, _, _, _)
mstLoop(g, k, selected, edgeCount, mstWeight) ==
    IF ~(edgeCount < k - 1) THEN mstWeight
    ELSE LET best == mstScan(g, k, selected, 0, [min |-> Infinity, x |-> 0, y |-> 0])
         IN  mstLoop(g, k, [selected EXCEPT ![best.y] = TRUE], edgeCount + 1,
                     Plus(mstWeight, g[best.x][best.y]))

calculateMST(g) ==
    LET k == Cardinality(DOMAIN g)
    IN  mstLoop(g, k, [c \in Cities(k) \cup {0} |-> c = 0], 0, 0)

\* A ratio or a percentage counts RatioQuanta quanta per unit, so that a
\* ratio from 1/4 on has all of a Number's significant bits.
RatioQuanta == Pow2(Precision + 1)

\* num / den on Numbers, the result in ratio quanta when num is: the Number
\* nearest the exact quotient, ties to even.
Quotient(num, den) ==
    LET floor == num \div den
        q == Spacing(floor, 1)
        lo == floor - (floor % q)
        rest == num - lo * den
    IN  IF 2 * rest < q * den THEN lo
        ELSE IF 2 * rest > q * den THEN lo + q
        ELSE IF (lo \div q) % 2 = 0 THEN lo
        ELSE lo + q

\* calculateEfficiency with the two lengths exchanged in the division.
calculateEfficiencyInverted(solutionLength, optimalLength) ==
    IF solutionLength <= 0 THEN 0
    ELSE IF optimalLength <= 0 THEN Infinity
    ELSE ToNumber(Quotient(solutionLength * RatioQuanta, optimalLength) * 100)

\* calculateEfficiency(solutionLength, optimalLength), in ratio quanta.
calculateEfficiency(solutionLength, optimalLength) ==
    IF solutionLength <= 0 THEN 0
    ELSE ToNumber(Quotient(optimalLength * RatioQuanta, solutionLength) * 100)

(***************************************************************************)
(* Orderings of the cities.                                                *)
(***************************************************************************)
\* The orderings of the cities of S: a first city, then an ordering of the rest.
RECURSIVE PermsOf(_)
PermsOf(S) ==
    IF S = {} THEN {<<>>}
    ELSE UNION {{<<c>> \o p : p \in PermsOf(S \ {c})} : c \in S}

\* The orderings of the cities 0..k-1.
Perms(k) == PermsOf(Cities(k))

\* tour lists every city of 0..k-1 exactly once and nothing else.
IsPermutation(tour, k) ==
    /\ Len(tour) = k
    /\ \A c \in Cities(k) : \E a \in 1 .. k : tour[a] = c

(***************************************************************************)
(* brute-force.js: bruteForceExact                                         *)
(***************************************************************************)
\* [arr[a], arr[b]] = [arr[b], arr[a]] on 0-based positions a, b
SwapAt(arr, a, b) ==
    [arr EXCEPT ![a + 1] = arr[b + 1], ![b + 1] = arr[a + 1]]

\* permute with bestTour = arr in place of the copy [...arr]: bestTour then
\* aliases the array being permuted, which ends in its initial order.
RECURSIVE permuteAliased(_, _, _, _), permuteAliasedLoop(_, _, _, _, _)
permuteAliased(arr, start, best, g) ==
    IF start = Len(arr) - 1
    THEN LET length == calculateTourLength(arr, g)
         IN  IF length < best.length
             THEN [tour |-> Identity(Len(arr)), length |-> length]
             ELSE best
    ELSE permuteAliasedLoop(arr, start, start, best, g)

permuteAliasedLoop(arr, start, i, best, g) ==
    IF i >= Len(arr) THEN best
    ELSE permuteAliasedLoop(arr, start, i + 1,
             permuteAliased([arr EXCEPT ![start + 1] = arr[i + 1],
                                        ![i + 1] = arr[start + 1]],
                            start + 1, best, g), g)

\* permute(arr, start): the closure's (bestTour, bestLength) after the call,
\* given their values `best` before it.
RECURSIVE permute(_, _, _, _), permuteLoop(_, _, _, _, _)
permute(arr, start, best, g) ==
    IF start = Len(arr) - 1
    THEN LET length == calculateTourLength(arr, g)
         IN  IF length < best.length
             THEN [tour |-> arr, length |-> length]
             ELSE best
    ELSE permuteLoop(arr, start, start, best, g)

permuteLoop(arr, start, i, best, g) ==
    IF i >= Len(arr) THEN best
    ELSE permuteLoop(arr, start, i + 1,
                     permute(SwapAt(arr, start, i), start + 1, best, g), g)

\* bruteForceExact with findOptimal's ceiling test at its head.
bruteForceStartCeiling(g, k) ==
    IF k > 20 THEN Null
    ELSE [cities |-> Identity(k),
          tour |-> Identity(k),
          length |-> calculateTourLength(Identity(k), g)]

\* The locals when the search starts: cities, bestTour and bestLength.  No
\* statement before the search looks at n.
bruteForceStart(g, k) ==
    [cities |-> Identity(k),
     tour |-> Identity(k),
     length |-> calculateTourLength(Identity(k), g)]

\* permute(cities, 1) and the return statement.
bruteForceFinish(locals, g) ==
    LET best == permute(locals.cities, 1,
                        [tour |-> locals.tour, length |-> locals.length], g)
    IN  TourResult(best.tour, best.length)

bruteForceExact(g, k) == bruteForceFinish(bruteForceStart(g, k), g)

(***************************************************************************)
(* brute-force.js: heldKarp.  dp and parent are the two Maps, keyed by     *)
(* <<mask, city>> for the string key `${mask},${city}`.                    *)
(***************************************************************************)
\* Base case: dp and parent after the first loop.
heldKarpBase(g, k) ==
    LET keys == {<<Shl1(i), i>> : i \in 1 .. (k - 1)}
    IN  [dp |-> [key \in keys |-> g[0][key[2]]],
         parent |-> [key \in keys |-> 0]]

\* generateSubsets(start, current, count): the masks it pushes, in order.
RECURSIVE generateSubsets(_, _, _, _, _), generateSubsetsLoop(_, _, _, _, _)
generateSubsets(k, size, start, current, count) ==
    IF count = size THEN <<current>>
    ELSE generateSubsetsLoop(k, size, start, current, count)

generateSubsetsLoop(k, size, i, current, count) ==
    IF i >= k THEN <<>>
    ELSE generateSubsets(k, size, i + 1, current + Shl1(i), count + 1)
         \o generateSubsetsLoop(k, size, i + 1, current, count)

\* The loop over prev without the test dist < bestDist: the last prev stays.
RECURSIVE prevLoopLast(_, _, _, _, _, _, _)
prevLoopLast(dp, g, k, prevMask, last, prev, best) ==
    IF prev >= k THEN best
    ELSE IF ~HasBit(prevMask, prev)
         THEN prevLoopLast(dp, g, k, prevMask, last, prev + 1, best)
    ELSE IF <<prevMask, prev>> \notin DOMAIN dp
         THEN prevLoopLast(dp, g, k, prevMask, last, prev + 1, best)
    ELSE prevLoopLast(dp, g, k, prevMask, last, prev + 1,
                      [bestDist |-> Plus(dp[<<prevMask, prev>>], g[prev][last]),
                       bestPrev |-> prev])

\* The loop over prev for one (mask, last): (bestDist, bestPrev) at its end.
RECURSIVE prevLoop(_, _, _, _, _, _, _)
prevLoop(dp, g, k, prevMask, last, prev, best) ==
    IF prev >= k THEN best
    ELSE IF ~HasBit(prevMask, prev) THEN prevLoop(dp, g, k, prevMask, last, prev + 1, best)
    ELSE IF <<prevMask, prev>> \notin DOMAIN dp
         THEN prevLoop(dp, g, k, prevMask, last, prev + 1, best)
    ELSE LET dist == Plus(dp[<<prevMask, prev>>], g[prev][last])
         IN  prevLoop(dp, g, k, prevMask, last, prev + 1,
                      IF dist < best.bestDist
                      THEN [bestDist |-> dist, bestPrev |-> prev]
                      ELSE best)

\* One round of the size loop.  The entries written for a mask of `size`
\* cities read only entries of masks of size - 1, so the round's writes are
\* computed from the tables as they stand at its start.
heldKarpSize(tables, g, k, size) ==
    LET subsets == generateSubsets(k, size, 1, 0, 0)
        keys == {key \in {<<subsets[s], last>> :
                              s \in 1 .. Len(subsets), last \in 1 .. (k - 1)} :
                    HasBit(key[1], key[2]) /\ FlipBit(key[1], key[2]) # 0}
        found == [key \in keys |->
                    prevLoop(tables.dp, g, k, FlipBit(key[1], key[2]), key[2], 1,
                             [bestDist |-> Infinity, bestPrev |-> -1])]
        written == {key \in keys : found[key].bestDist < Infinity}
    IN  [dp |-> [key \in written |-> found[key].bestDist] @@ tables.dp,
         parent |-> [key \in written |-> found[key].bestPrev] @@ tables.parent]

\* The keys one round of the size loop looks up with dp.has and does not
\* find (the `continue` of line 115).
missedLookups(dp, k, size) ==
    LET subsets == generateSubsets(k, size, 1, 0, 0)
        lasts(mask) == {c \in 1 .. (k - 1) : HasBit(mask, c)}
        looked == UNION {UNION {{<<FlipBit(subsets[s], last), prev>> :
                                    prev \in 1 .. (k - 1)} :
                                last \in lasts(subsets[s])} :
                         s \in 1 .. Len(subsets)}
    IN  {key \in looked :
            key[1] # 0 /\ HasBit(key[1], key[2]) /\ key \notin DOMAIN dp}

RECURSIVE heldKarpFill(_, _, _, _)
heldKarpFill(tables, g, k, size) ==
    IF size >= k THEN tables
    ELSE heldKarpFill(heldKarpSize(tables, g, k, size), g, k, size + 1)

\* ((1 << n) - 1) ^ 1
fullMask(k) == FlipBit(Shl1(k) - 1, 0)

\* The loop over the last city: (minLength, lastCity) at its end.
RECURSIVE lastLoop(_, _, _, _, _)
lastLoop(dp, g, k, i, best) ==
    IF i >= k THEN best
    ELSE IF <<fullMask(k), i>> \notin DOMAIN dp THEN lastLoop(dp, g, k, i + 1, best)
    ELSE LET dist == Plus(dp[<<fullMask(k), i>>], g[i][0])
         IN  lastLoop(dp, g, k, i + 1,
                      IF dist < best.minLength
                      THEN [minLength |-> dist, lastCity |-> i]
                      ELSE best)

\* The reconstruction loop: the tour at its end.
RECURSIVE reconstruct(_, _, _, _)
reconstruct(parent, tour, currentMask, current) ==
    IF current = 0 \/ current = Undefined THEN tour
    ELSE LET key == <<currentMask, current>>
             prev == IF key \in DOMAIN parent THEN parent[key] ELSE Undefined
         IN  reconstruct(parent, Append(tour, current),
                         FlipBit(currentMask, current), prev)

\* The size loop, the loop over the last city, the reconstruction and the
\* return statement, from the tables of the base case.
heldKarpFinish(tables0, g, k) ==
    LET tables == heldKarpFill(tables0, g, k, 2)
        best == lastLoop(tables.dp, g, k, 1, [minLength |-> Infinity, lastCity |-> -1])
        tour == reconstruct(tables.parent, <<0>>, fullMask(k), best.lastCity)
    IN  TourResult(tour, best.minLength)

heldKarp(g, k) == heldKarpFinish(heldKarpBase(g, k), g, k)

(***************************************************************************)
(* brute-force.js: findOptimal                                             *)
(***************************************************************************)
\* getMaxFeasibleN(), and the literal of findOptimal's first test
FeasibleCeiling == 20

\* The literal of findOptimal's second test
BruteForceLimit == 10

\* findOptimal without its first test.
findOptimalRouteNoCeiling(k) ==
    IF k <= 10 THEN "bruteForceExact" ELSE "heldKarp"

\* What findOptimal does for k cities: return null, or which solver it calls.
findOptimalRoute(k) ==
    IF k > FeasibleCeiling THEN "null"
    ELSE IF k <= BruteForceLimit THEN "bruteForceExact"
    ELSE "heldKarp"

(***************************************************************************)
(* The exact solvers as a state machine.  Calls are synchronous: one is    *)
(* made when none is running.  Each entry point is called at most once on  *)
(* an instance.                                                            *)
(***************************************************************************)
Entries == {"findOptimal", "bruteForceExact", "heldKarp"}

NoLocals == [kind |-> "none"]

\* City counts beyond the exhaustive ones: the first that findOptimal hands
\* to heldKarp, the first above the ceiling, and the tests' infeasible one.
MidN == BruteForceLimit + 1
OverN == FeasibleCeiling + 1

\* The instances explored.
Instances ==
    UNION {{[n |-> k, graph |-> g] : g \in SymGraphs(k)} : k \in 1 .. MaxN}
    \cup UNION {{[n |-> k, graph |-> g] : g \in LongGraphs(k)} : k \in 3 .. TestN}
    \cup {[n |-> TestN, graph |-> SquareGraph]}
    \cup {[n |-> k, graph |-> FilledGraph(k)] : k \in {MidN, OverN, LargeN}}

\* The sizes whose search is unfolded to its end ((n-1)! orderings, 2^n masks).
bruteForceUnfolded == 1 .. MaxN
heldKarpUnfolded == (1 .. MaxN) \cup {MidN}

\* GreedyEdge.generateTour has not been called.
GreedyIdle ==
    [pc |-> "idle", edges |-> <<>>, scanned |-> 0, degree |-> <<>>, parent |-> <<>>,
     adj |-> <<>>, edgeCount |-> 0, tour |-> <<>>, visited |-> <<>>, current |-> 0,
     deadEnd |-> FALSE]

\* TwoOpt.improve has not been called.
TwoOptIdle ==
    [pc |-> "idle", tour |-> <<>>, maxIterations |-> 0, improved |-> TRUE,
     iterations |-> 0, currentTour |-> <<>>, i |-> 0, j |-> 0, reversals |-> 0]

\* No constructor that returns at once, and no zigzag, has been called.
NoCall == [fn |-> "none", gridSize |-> 0, startCity |-> 0, tourIndices |-> <<>>,
           args |-> <<>>, held |-> <<>>, ret |-> NoValue]

\* SimulatedAnnealing.optimize has not been called.
AnnealIdle ==
    [pc |-> "idle", initialTour |-> <<>>, maxIterations |-> 0, currentTour |-> <<>>,
     currentLength |-> 0, bestTour |-> <<>>, bestLength |-> 0, iter |-> 0,
     cooled |-> 0]

\* GeneticAlgorithm.optimize has not been called.
GeneticIdle ==
    [pc |-> "idle", populationSize |-> 0, generations |-> 0, population |-> <<>>,
     gen |-> 0, bestTour |-> <<>>, drawn |-> <<>>]

\* None of them has been called.
RestIdle ==
    /\ call = NoCall
    /\ anneal = AnnealIdle
    /\ genetic = GeneticIdle

\* No exact solver has been called.
ExactIdle ==
    /\ stack = <<>>
    /\ search = NoLocals
    /\ exactRet = [e \in Entries |-> NoValue]
    /\ invoked = {}

InitExact ==
    /\ \E inst \in Instances : n = inst.n /\ graph = inst.graph
    /\ ExactIdle
    /\ twoOpt = TwoOptIdle
    /\ greedy = GreedyIdle
    /\ points = <<>>
    /\ RestIdle

\* findOptimal(graph, n) with n above the ceiling: returns null at once.
FindOptimalInfeasible ==
    /\ stack = <<>>
    /\ exactRet["findOptimal"] = NoValue
    /\ findOptimalRoute(n) = "null"
    /\ exactRet' = [exactRet EXCEPT !["findOptimal"] = Null]
    /\ UNCHANGED <<n, graph, stack, search, invoked, twoOpt, greedy, restVars>>

\* findOptimal(graph, n) calls bruteForceExact, which starts its search.
FindOptimalBruteForce ==
    /\ stack = <<>>
    /\ exactRet["findOptimal"] = NoValue
    /\ findOptimalRoute(n) = "bruteForceExact"
    /\ stack' = <<"findOptimal", "bruteForceExact">>
    /\ search' = bruteForceStart(graph, n)
    /\ invoked' = invoked \cup {"bruteForceExact"}
    /\ UNCHANGED <<n, graph, exactRet, twoOpt, greedy, restVars>>

\* findOptimal(graph, n) calls heldKarp, which fills its base case.
FindOptimalHeldKarp ==
    /\ stack = <<>>
    /\ exactRet["findOptimal"] = NoValue
    /\ findOptimalRoute(n) = "heldKarp"
    /\ stack' = <<"findOptimal", "heldKarp">>
    /\ search' = heldKarpBase(graph, n)
    /\ invoked' = invoked \cup {"heldKarp"}
    /\ UNCHANGED <<n, graph, exactRet, twoOpt, greedy, restVars>>

\* A direct call bruteForceExact(graph, n).
CallBruteForceExact ==
    /\ stack = <<>>
    /\ exactRet["bruteForceExact"] = NoValue
    /\ stack' = <<"bruteForceExact">>
    /\ search' = bruteForceStart(graph, n)
    /\ UNCHANGED <<n, graph, exactRet, invoked, twoOpt, greedy, restVars>>

\* A direct call heldKarp(graph, n).
CallHeldKarp ==
    /\ stack = <<>>
    /\ exactRet["heldKarp"] = NoValue
    /\ stack' = <<"heldKarp">>
    /\ search' = heldKarpBase(graph, n)
    /\ UNCHANGED <<n, graph, exactRet, invoked, twoOpt, greedy, restVars>>

\* The running solver returns; findOptimal returns what its solver returned.
BruteForceReturn ==
    /\ stack # <<>>
    /\ stack[Len(stack)] = "bruteForceExact"
    /\ n \in bruteForceUnfolded
    /\ exactRet' = [exactRet EXCEPT ![stack[1]] = bruteForceFinish(search, graph)]
    /\ stack' = <<>>
    /\ search' = NoLocals
    /\ UNCHANGED <<n, graph, invoked, twoOpt, greedy, restVars>>

HeldKarpReturn ==
    /\ stack # <<>>
    /\ stack[Len(stack)] = "heldKarp"
    /\ n \in heldKarpUnfolded
    /\ exactRet' = [exactRet EXCEPT ![stack[1]] = heldKarpFinish(search, graph, n)]
    /\ stack' = <<>>
    /\ search' = NoLocals
    /\ UNCHANGED <<n, graph, invoked, twoOpt, greedy, restVars>>

NextExact ==
    \/ FindOptimalInfeasible
    \/ FindOptimalBruteForce
    \/ FindOptimalHeldKarp
    \/ CallBruteForceExact
    \/ CallHeldKarp
    \/ BruteForceReturn
    \/ HeldKarpReturn

SpecExact == InitExact /\ [][NextExact]_vars

(***************************************************************************)
(* two-opt.js: improve(tour, graph, maxIterations = 100)                   *)
(***************************************************************************)
DefaultMaxIterations == 100

\* The nested for loops' position: the first (i, j) with i < n - 1 and
\* j < n at or after (i, j), or the end of the pass.
RECURSIVE forPair(_, _, _)
forPair(k, i, j) ==
    IF ~(i < k - 1) THEN [end |-> TRUE, i |-> i, j |-> j]
    ELSE IF j < k THEN [end |-> FALSE, i |-> i, j |-> j]
    ELSE forPair(k, i + 1, i + 3)

\* The skip test with || for &&.
skipPairEither(k, i, j) == j = k - 1 \/ i = 0

\* if (j === n - 1 && i === 0) continue
skipPair(k, i, j) == j = k - 1 /\ i = 0

\* currentDistance and newDistance for the pair (i, j)
currentDistance(t, g, i, j) ==
    Plus(g[t[i + 1]][t[i + 2]], g[t[j + 1]][t[((j + 1) % Len(t)) + 1]])

newDistance(t, g, i, j) ==
    Plus(g[t[i + 1]][t[j + 1]], g[t[i + 2]][t[((j + 1) % Len(t)) + 1]])

\* The test with <= for <.
improvesOrTies(t, g, i, j) == newDistance(t, g, i, j) <= currentDistance(t, g, i, j)

\* if (newDistance < currentDistance)
improves(t, g, i, j) == newDistance(t, g, i, j) < currentDistance(t, g, i, j)

\* The copy loop run one index too far (k <= j - i), where the slot exists.
reverseSegmentTooFar(t, i, j) ==
    [p \in 1 .. Len(t) |->
        IF p - 1 >= i + 1 /\ p - 1 <= j + 1 THEN t[(j - ((p - 1) - (i + 1))) + 1]
        ELSE t[p]]

\* newTour: currentTour with newTour[i + 1 + k] = currentTour[j - k] for
\* k = 0 .. j - i - 1.
reverseSegment(t, i, j) ==
    [p \in 1 .. Len(t) |->
        IF p - 1 >= i + 1 /\ p - 1 <= j THEN t[(j - ((p - 1) - (i + 1))) + 1]
        ELSE t[p]]

\* The while loop's test with <= for <: one pass more than the cap.
loopContinuesPastCap(improved, iterations, maxIterations) ==
    improved /\ iterations <= maxIterations

\* The while loop's test.
loopContinues(improved, iterations, maxIterations) ==
    improved /\ iterations < maxIterations

\* The tours given to improve: every ordering up to the test instance's
\* size; beyond it the ordering 0..n-1 (the matrices being all relabelings).
InputTours(k) == IF k <= TestN THEN Perms(k) ELSE {Identity(k)}

IterationCaps == (0 .. MaxIterCap) \cup {DefaultMaxIterations}

\* improve(tour, graph, maxIterations) is called: lines 26-29.
TwoOptCall ==
    /\ twoOpt.pc = "idle"
    /\ \E tour \in InputTours(n), maxIterations \in IterationCaps :
           twoOpt' = [pc |-> "while", tour |-> tour, maxIterations |-> maxIterations,
                      improved |-> TRUE, iterations |-> 0, currentTour |-> tour,
                      i |-> 0, j |-> 0, reversals |-> 0]
    /\ UNCHANGED <<n, graph, exactVars, greedy, restVars>>

\* The position after the body has run for (i, j): the next pair, or the
\* while test when the pass has ended.
TwoOptAdvance(st) ==
    LET nxt == forPair(Len(st.tour), st.i, st.j + 1)
    IN  [st EXCEPT !.pc = IF nxt.end THEN "while" ELSE "for",
                   !.i = nxt.i, !.j = nxt.j]

\* The while test holds: a pass starts.
TwoOptPass ==
    /\ twoOpt.pc = "while"
    /\ loopContinues(twoOpt.improved, twoOpt.iterations, twoOpt.maxIterations)
    /\ LET nxt == forPair(Len(twoOpt.tour), 0, 2)
       IN  twoOpt' = [twoOpt EXCEPT !.improved = FALSE,
                                    !.iterations = @ + 1,
                                    !.pc = IF nxt.end THEN "while" ELSE "for",
                                    !.i = nxt.i, !.j = nxt.j]
    /\ UNCHANGED <<n, graph, exactVars, greedy, restVars>>

\* The pair (0, n - 1) is skipped.
TwoOptSkip ==
    /\ twoOpt.pc = "for"
    /\ skipPair(Len(twoOpt.tour), twoOpt.i, twoOpt.j)
    /\ twoOpt' = TwoOptAdvance(twoOpt)
    /\ UNCHANGED <<n, graph, exactVars, greedy, restVars>>

\* The pair does not improve: nothing changes.
TwoOptKeep ==
    /\ twoOpt.pc = "for"
    /\ ~skipPair(Len(twoOpt.tour), twoOpt.i, twoOpt.j)
    /\ ~improves(twoOpt.currentTour, graph, twoOpt.i, twoOpt.j)
    /\ twoOpt' = TwoOptAdvance(twoOpt)
    /\ UNCHANGED <<n, graph, exactVars, greedy, restVars>>

\* The pair improves: the segment i+1 .. j is reversed.
\* improve without line 27's copy: currentTour is the caller's array.
TwoOptReverseInPlace ==
    /\ twoOpt.pc = "for"
    /\ ~skipPair(Len(twoOpt.tour), twoOpt.i, twoOpt.j)
    /\ improves(twoOpt.currentTour, graph, twoOpt.i, twoOpt.j)
    /\ twoOpt' = TwoOptAdvance(
           [twoOpt EXCEPT !.currentTour = reverseSegment(@, twoOpt.i, twoOpt.j),
                          !.tour = reverseSegment(twoOpt.currentTour, twoOpt.i, twoOpt.j),
                          !.improved = TRUE,
                          !.reversals = @ + 1])
    /\ UNCHANGED <<n, graph, exactVars, greedy, restVars>>

TwoOptReverse ==
    /\ twoOpt.pc = "for"
    /\ ~skipPair(Len(twoOpt.tour), twoOpt.i, twoOpt.j)
    /\ improves(twoOpt.currentTour, graph, twoOpt.i, twoOpt.j)
    /\ twoOpt' = TwoOptAdvance(
           [twoOpt EXCEPT !.currentTour = reverseSegment(@, twoOpt.i, twoOpt.j),
                          !.improved = TRUE,
                          !.reversals = @ + 1])
    /\ UNCHANGED <<n, graph, exactVars, greedy, restVars>>

\* The while test fails: improve returns currentTour.
TwoOptReturn ==
    /\ twoOpt.pc = "while"
    /\ ~loopContinues(twoOpt.improved, twoOpt.iterations, twoOpt.maxIterations)
    /\ twoOpt' = [twoOpt EXCEPT !.pc = "done"]
    /\ UNCHANGED <<n, graph, exactVars, greedy, restVars>>

NextTwoOpt ==
    \/ TwoOptCall
    \/ TwoOptPass
    \/ TwoOptSkip
    \/ TwoOptKeep
    \/ TwoOptReverse
    \/ TwoOptReturn

\* The instances given to the heuristics.
SmallInstances ==
    UNION {{[n |-> k, graph |-> g] : g \in SymGraphs(k)} : k \in 1 .. MaxN}
    \cup UNION {{[n |-> k, graph |-> g] : g \in LongGraphs(k)} : k \in 3 .. TestN}
    \cup {[n |-> TestN, graph |-> SquareGraph]}

InitTwoOpt ==
    /\ \E inst \in SmallInstances : n = inst.n /\ graph = inst.graph
    /\ ExactIdle
    /\ twoOpt = TwoOptIdle
    /\ greedy = GreedyIdle
    /\ points = <<>>
    /\ RestIdle

SpecTwoOpt == InitTwoOpt /\ [][NextTwoOpt]_vars

\* The instances on which improve is followed to its return: every matrix
\* below the test instance's size, and at that size the unit square and
\* the matrices of rounded sums.
RunInstances ==
    {inst \in SmallInstances : inst.n < TestN}
    \cup {[n |-> TestN, graph |-> g] : g \in LongGraphs(TestN) \cup {SquareGraph}}

InitTwoOptRuns ==
    /\ \E inst \in RunInstances : n = inst.n /\ graph = inst.graph
    /\ ExactIdle
    /\ twoOpt = TwoOptIdle
    /\ greedy = GreedyIdle
    /\ points = <<>>
    /\ RestIdle

\* improve is synchronous code: once called it runs on, step after step.
SpecTwoOptRuns == InitTwoOptRuns /\ [][NextTwoOpt]_vars /\ WF_vars(NextTwoOpt)

(***************************************************************************)
(* genetic.js: GreedyEdge.generateTour(points, graph)                      *)
(***************************************************************************)
\* The edge list as pushed: (i, j) for i < j, i ascending, then j.
RECURSIVE allEdges(_, _, _, _)
allEdges(g, k, i, j) ==
    IF i >= k THEN <<>>
    ELSE IF j >= k THEN allEdges(g, k, i + 1, i + 2)
    ELSE <<[from |-> i, to |-> j, dist |-> g[i][j]]>> \o allEdges(g, k, i, j + 1)

\* edges.sort((a, b) => a.dist - b.dist): Array.prototype.sort is stable,
\* so edges of equal length keep their order.  Insertion from the back.
RECURSIVE insertEdge(_, _)
insertEdge(e, sorted) ==
    IF sorted = <<>> THEN <<e>>
    ELSE IF e.dist - Head(sorted).dist <= 0 THEN <<e>> \o sorted
    ELSE <<Head(sorted)>> \o insertEdge(e, Tail(sorted))

RECURSIVE sortEdges(_)
sortEdges(edges) ==
    IF edges = <<>> THEN <<>>
    ELSE insertEdge(Head(edges), sortEdges(Tail(edges)))

\* find(x) with its path compression: the root and the parent array after.
RECURSIVE find(_, _)
find(parent, x) ==
    IF parent[x] # x
    THEN LET r == find(parent, parent[x])
         IN  [root |-> r.root, parent |-> [r.parent EXCEPT ![x] = r.root]]
    ELSE [root |-> x, parent |-> parent]

\* find(from) === find(to): the verdict and the parent array after both calls.
sameSet(parent, x, y) ==
    LET a == find(parent, x)
        b == find(a.parent, y)
    IN  [same |-> a.root = b.root, parent |-> b.parent]

\* generateTour without line 246: the sets are never joined.
unionSkipped(parent, x, y) == parent

\* union(x, y): parent[find(x)] = find(y)
union(parent, x, y) ==
    LET a == find(parent, x)
        b == find(a.parent, y)
    IN  [b.parent EXCEPT ![a.root] = b.root]

\* degree[from] >= 2 || degree[to] >= 2
degreeFull(degree, e) == degree[e.from] >= 2 \/ degree[e.to] >= 2

\* The cycle test made for the closing edge too (edgeCount < n).
cycleTestedAlways(edgeCount, k) == edgeCount < k

\* The first test of line 240: the cycle test is made at all.
cycleTested(edgeCount, k) == edgeCount < k - 1

\* The first unvisited neighbor of adj[current], or -1.
RECURSIVE firstUnvisited(_, _)
firstUnvisited(neighbors, visited) ==
    IF neighbors = <<>> THEN -1
    ELSE IF ~visited[Head(neighbors)] THEN Head(neighbors)
    ELSE firstUnvisited(Tail(neighbors), visited)

\* generateTour is called: the edge list is built and sorted, the arrays set up.
GreedyCall ==
    /\ greedy.pc = "idle"
    /\ greedy' = [pc |-> "scan",
                  edges |-> sortEdges(allEdges(graph, n, 0, 1)),
                  scanned |-> 0,
                  degree |-> [c \in Cities(n) |-> 0],
                  parent |-> [c \in Cities(n) |-> c],
                  adj |-> [c \in Cities(n) |-> <<>>],
                  edgeCount |-> 0,
                  tour |-> <<>>,
                  visited |-> [c \in Cities(n) |-> FALSE],
                  current |-> 0,
                  deadEnd |-> FALSE]
    /\ UNCHANGED <<n, graph, exactVars, twoOpt, restVars>>

\* The edge the scan is at.
GreedyEdgeAt == greedy.edges[greedy.scanned + 1]

GreedyScanning ==
    /\ greedy.pc = "scan"
    /\ greedy.scanned < Len(greedy.edges)
    /\ ~(greedy.edgeCount >= n)

\* The scan ends: the list is exhausted, or edgeCount >= n breaks it.  The
\* walk starts at city 0.
GreedyScanEnd ==
    /\ greedy.pc = "scan"
    /\ ~GreedyScanning
    /\ greedy' = [greedy EXCEPT !.pc = "walk"]
    /\ UNCHANGED <<n, graph, exactVars, twoOpt, restVars>>

\* The edge would give an endpoint degree 3: continue.
GreedyRejectDegree ==
    /\ GreedyScanning
    /\ degreeFull(greedy.degree, GreedyEdgeAt)
    /\ greedy' = [greedy EXCEPT !.scanned = @ + 1]
    /\ UNCHANGED <<n, graph, exactVars, twoOpt, restVars>>

\* The edge would close a cycle before n - 1 edges are placed: continue.
GreedyRejectCycle ==
    /\ GreedyScanning
    /\ ~degreeFull(greedy.degree, GreedyEdgeAt)
    /\ cycleTested(greedy.edgeCount, n)
    /\ LET t == sameSet(greedy.parent, GreedyEdgeAt.from, GreedyEdgeAt.to)
       IN  /\ t.same
           /\ greedy' = [greedy EXCEPT !.scanned = @ + 1, !.parent = t.parent]
    /\ UNCHANGED <<n, graph, exactVars, twoOpt, restVars>>

\* The edge is added.
GreedyAccept ==
    /\ GreedyScanning
    /\ ~degreeFull(greedy.degree, GreedyEdgeAt)
    /\ LET e == GreedyEdgeAt
           tested == cycleTested(greedy.edgeCount, n)
           t == sameSet(greedy.parent, e.from, e.to)
           parent1 == IF tested THEN t.parent ELSE greedy.parent
       IN  /\ ~(tested /\ t.same)
           /\ greedy' = [greedy EXCEPT
                  !.scanned = @ + 1,
                  !.adj = [@ EXCEPT ![e.from] = Append(@, e.to),
                                    ![e.to] = Append(greedy.adj[e.to], e.from)],
                  !.degree = [@ EXCEPT ![e.from] = @ + 1,
                                       ![e.to] = greedy.degree[e.to] + 1],
                  !.parent = union(parent1, e.from, e.to),
                  !.edgeCount = @ + 1]
    /\ UNCHANGED <<n, graph, exactVars, twoOpt, restVars>>

\* One round of the walk: current is pushed and the walk moves to its first
\* unvisited neighbor, or breaks when there is none.
GreedyWalk ==
    /\ greedy.pc = "walk"
    /\ Len(greedy.tour) < n
    /\ LET tour1 == Append(greedy.tour, greedy.current)
           visited1 == [greedy.visited EXCEPT ![greedy.current] = TRUE]
           next == firstUnvisited(greedy.adj[greedy.current], visited1)
       IN  greedy' = [greedy EXCEPT
                  !.tour = tour1,
                  !.visited = visited1,
                  !.current = IF next = -1 THEN @ ELSE next,
                  !.pc = IF next = -1 THEN "done" ELSE "walk",
                  !.deadEnd = (next = -1 /\ Len(tour1) < n)]
    /\ UNCHANGED <<n, graph, exactVars, twoOpt, restVars>>

\* The while test fails: generateTour returns the tour.
GreedyReturn ==
    /\ greedy.pc = "walk"
    /\ ~(Len(greedy.tour) < n)
    /\ greedy' = [greedy EXCEPT !.pc = "done"]
    /\ UNCHANGED <<n, graph, exactVars, twoOpt, restVars>>

NextGreedy ==
    \/ GreedyCall
    \/ GreedyScanEnd
    \/ GreedyRejectDegree
    \/ GreedyRejectCycle
    \/ GreedyAccept
    \/ GreedyWalk
    \/ GreedyReturn

\* Matrices of the test instance's size whose edge lengths are all
\* distinct: every order the sorted edge list can have.
DistinctGraphs ==
    {MatrixOf(TestN, w) : w \in {v \in [Pairs(TestN) -> 1 .. Cardinality(Pairs(TestN))] :
                                    \A a, b \in Pairs(TestN) : v[a] = v[b] => a = b}}

\* The instances given to generateTour, the empty point list among them.
GreedyInstances ==
    SmallInstances
    \cup {[n |-> TestN, graph |-> g] : g \in DistinctGraphs}
    \cup {[n |-> 0, graph |-> <<>>]}

InitGreedy ==
    /\ \E inst \in GreedyInstances : n = inst.n /\ graph = inst.graph
    /\ ExactIdle
    /\ twoOpt = TwoOptIdle
    /\ greedy = GreedyIdle
    /\ points = <<>>
    /\ RestIdle

SpecGreedy == InitGreedy /\ [][NextGreedy]_vars

(***************************************************************************)
(* Points.  A coordinate counts quarter sides of the unit square, so the   *)
(* centre (0.5, 0.5) is (2, 2); an angle counts eighths of a turn; a       *)
(* distance is in thousandths of the side, as in SquareGraph.              *)
(***************************************************************************)
\* 2 * Math.PI
FullTurn == 8

\* Math.floor(Math.sqrt(x)), by bisection of lo*lo <= x < hi*hi.
RECURSIVE sqrtBetween(_, _, _)
sqrtBetween(x, lo, hi) ==
    IF hi - lo <= 1 THEN lo
    ELSE LET mid == (lo + hi) \div 2
         IN  IF mid * mid <= x THEN sqrtBetween(x, mid, hi)
             ELSE sqrtBetween(x, lo, mid)

\* Math.hypot(a, b) of two coordinate differences, as a Number.
hypot(a, b) ==
    LET quarter == SquareSide \div 4
        longest == ((IF a < 0 THEN -a ELSE a) + (IF b < 0 THEN -b ELSE b)) * quarter
    IN  ToNumber(sqrtBetween((a * a + b * b) * quarter * quarter, 0, longest + 1))

\* utils.js distance(start, end)
distance(start, end) == hypot(end.y - start.y, end.x - start.x)

\* utils.js createDistanceMatrix(points)
createDistanceMatrix(pts) ==
    [i \in Cities(Len(pts)) |-> [j \in Cities(Len(pts)) |->
        IF i # j THEN distance(pts[i + 1], pts[j + 1]) ELSE 0]]

\* Math.atan2(dy, dx) in the eight directions of the lattice.
atan2(dy, dx) ==
    CASE dy = 0 /\ dx >= 0 -> 0
      [] dy > 0 /\ dx > 0 -> 1
      [] dy > 0 /\ dx = 0 -> 2
      [] dy > 0 /\ dx < 0 -> 3
      [] dy = 0 /\ dx < 0 -> 4
      [] dy < 0 /\ dx < 0 -> -3
      [] dy < 0 /\ dx = 0 -> -2
      [] dy < 0 /\ dx > 0 -> -1

\* The tests' testPoints: the unit square, with the angles the tests give.
testPoints ==
    << [x |-> 0, y |-> 0, id |-> 0, angle |-> 4],
       [x |-> 4, y |-> 0, id |-> 1, angle |-> 0],
       [x |-> 4, y |-> 4, id |-> 2, angle |-> 1],
       [x |-> 0, y |-> 4, id |-> 3, angle |-> 2] >>

\* generateNormalizedPoints: const maxRadius = 0.45
maxRadius == 450

\* The cells of the generator's grid, as offsets (dx, dy) from the centre:
\* the centre cell, three cells around it, and one beyond maxRadius.
Lattice == {<<0, 0>>, <<1, 0>>, <<0, 1>>, <<-1, -1>>, <<2, 0>>}

\* The angle stored for the cell at (dx, dy).  low: (g + 0.5) * gridStep of
\* the middle row and column is the Number just below 0.5 (gridSize 49), so
\* their offset from the centre is just below 0.  On the middle row right
\* of the centre atan2 is then just below 0, and angle + 2 * Math.PI is
\* rounded to 2 * Math.PI.
generatedAngle(dx, dy, low) ==
    LET angle == IF low /\ dx = 0 /\ dy = 0 THEN atan2(-1, -1) ELSE atan2(dy, dx)
    IN  IF low /\ dy = 0 /\ dx > 0 THEN FullTurn
        ELSE IF angle < 0 THEN angle + FullTurn
        ELSE angle

\* validPositions: the cells within maxRadius of the centre.
validPositions(low) ==
    {[x |-> 2 + c[1], y |-> 2 + c[2], angle |-> generatedAngle(c[1], c[2], low)] :
        c \in {d \in Lattice : hypot(d[1], d[2]) <= maxRadius}}

\* The orders the Fisher-Yates shuffle can leave validPositions in.
Shuffles(positions) ==
    {s \in [1 .. Cardinality(positions) -> positions] :
        \A a, b \in 1 .. Cardinality(positions) : s[a] = s[b] => a = b}

\* generateNormalizedPoints(numPoints, gridSize, seed): the first numPoints
\* of the shuffled positions, with ids assigned.
generateNormalizedPoints(numPoints, shuffled) ==
    [idx \in 1 .. (IF numPoints < Len(shuffled) THEN numPoints ELSE Len(shuffled)) |->
        [x |-> shuffled[idx].x, y |-> shuffled[idx].y,
         angle |-> shuffled[idx].angle, id |-> idx - 1]]

\* The point lists given to the heuristics.
PointLists ==
    {generateNormalizedPoints(numPoints, shuffled) :
        numPoints \in 1 .. MaxN,
        shuffled \in Shuffles(validPositions(TRUE)) \cup Shuffles(validPositions(FALSE))}
    \cup {testPoints}

\* points.map(p => p.id)
RECURSIVE ids(_)
ids(pts) == IF pts = <<>> THEN <<>> ELSE <<Head(pts).id>> \o ids(Tail(pts))

\* sort((a, b) => key(a) - key(b)): Array.prototype.sort is stable.
RECURSIVE insertByKey(_, _)
insertByKey(e, sorted) ==
    IF sorted = <<>> THEN <<e>>
    ELSE IF e.key - Head(sorted).key <= 0 THEN <<e>> \o sorted
    ELSE <<Head(sorted)>> \o insertByKey(e, Tail(sorted))

RECURSIVE sortByKey(_)
sortByKey(keyed) ==
    IF keyed = <<>> THEN <<>>
    ELSE insertByKey(Head(keyed), sortByKey(Tail(keyed)))

(***************************************************************************)
(* sonar-visit.js: generateTour(points, gridSize = 40)                     *)
(***************************************************************************)
DefaultGridSize == 40

angleSteps(gridSize) == 4 * gridSize

\* Math.floor(angle / angleStep) after the normalisation of a negative angle.
bucketIndex(point, gridSize) ==
    LET angle == IF point.angle < 0 THEN point.angle + FullTurn ELSE point.angle
    IN  (angle * angleSteps(gridSize)) \div FullTurn

\* const center = { x: 0.5, y: 0.5 }
center == [x |-> 2, y |-> 2]

\* The ids of angleBuckets.get(i) as pushed, without the sort.
bucketPointsAsPushed(pts, gridSize, i) ==
    LET inBucket(p) == bucketIndex(p, gridSize) = i
    IN  ids(SelectSeq(pts, inBucket))

\* The ids of angleBuckets.get(i) after the sort by distance from the centre.
bucketPoints(pts, gridSize, i) ==
    LET inBucket(p) == bucketIndex(p, gridSize) = i
        pushed == SelectSeq(pts, inBucket)
    IN  ids(sortByKey([b \in 1 .. Len(pushed) |->
                          [key |-> hypot(pushed[b].x - center.x, pushed[b].y - center.y),
                           id |-> pushed[b].id]]))

\* The sweep from bucket i on: the loop passes the indices that
\* angleBuckets does not have, up to the next one it has below angleSteps.
RECURSIVE sweep(_, _, _)
sweep(pts, gridSize, i) ==
    LET has == {b \in {bucketIndex(pts[p], gridSize) : p \in 1 .. Len(pts)} :
                   b >= i /\ b < angleSteps(gridSize)}
    IN  IF has = {} THEN <<>>
        ELSE LET next == CHOOSE b \in has : \A c \in has : b <= c
             IN  bucketPoints(pts, gridSize, next) \o sweep(pts, gridSize, next + 1)

sonarVisit(pts, gridSize) == sweep(pts, gridSize, 0)

(***************************************************************************)
(* angular-sort.js: generateTour(points)                                   *)
(***************************************************************************)
angularSort(pts) ==
    ids(sortByKey([b \in 1 .. Len(pts) |-> [key |-> pts[b].angle, id |-> pts[b].id]]))

(***************************************************************************)
(* index.js: NearestNeighbor.generateTour(points, graph, startCity = 0)    *)
(***************************************************************************)
\* The for loop with <= for <: on a tie the later city replaces the earlier.
RECURSIVE nearestScanLast(_, _, _, _, _, _)
nearestScanLast(g, k, visited, current, i, best) ==
    IF ~(i < k) THEN best.nearest
    ELSE IF ~visited[i] /\ g[current][i] <= best.nearestDist
    THEN nearestScanLast(g, k, visited, current, i + 1,
                         [nearest |-> i, nearestDist |-> g[current][i]])
    ELSE nearestScanLast(g, k, visited, current, i + 1, best)

\* The for loop: nearest after the cities i, i + 1, .. k - 1 are tried.
RECURSIVE nearestScan(_, _, _, _, _, _)
nearestScan(g, k, visited, current, i, best) ==
    IF ~(i < k) THEN best.nearest
    ELSE IF ~visited[i] /\ g[current][i] < best.nearestDist
    THEN nearestScan(g, k, visited, current, i + 1,
                     [nearest |-> i, nearestDist |-> g[current][i]])
    ELSE nearestScan(g, k, visited, current, i + 1, best)

\* The while loop.  With no city nearer than Infinity left it never ends.
RECURSIVE nearestLoop(_, _, _, _, _)
nearestLoop(g, k, tour, visited, current) ==
    IF ~(Len(tour) < k) THEN [kind |-> "tour", tour |-> tour]
    ELSE LET nearest == nearestScan(g, k, visited, current, 0,
                                    [nearest |-> -1, nearestDist |-> Infinity])
         IN  IF nearest # -1
             THEN nearestLoop(g, k, Append(tour, nearest),
                              [visited EXCEPT ![nearest] = TRUE], nearest)
             ELSE NoValue

nearestNeighbor(pts, g, startCity) ==
    nearestLoop(g, Len(pts), <<startCity>>,
                [c \in Cities(Len(pts)) |-> c = startCity], startCity)

(***************************************************************************)
(* zigzag.js: Zigzag.optimize(tourIndices, points, graph)                  *)
(***************************************************************************)
\* pts[i % pts.length]
pointAt(pts, i) == pts[(i % Len(pts)) + 1]

\* shouldZigzag with <= for <: a swap that only ties is applied as well.
shouldZigzagOrTies(i, pts) ==
    LET p1 == pointAt(pts, i - 1 + Len(pts))
        p2 == pointAt(pts, i)
        p3 == pointAt(pts, i + 1)
        p4 == pointAt(pts, i + 2)
    IN  Plus(distance(p1, p3), distance(p2, p4)) <= Plus(distance(p1, p2), distance(p3, p4))

shouldZigzag(i, pts) ==
    LET p1 == pointAt(pts, i - 1 + Len(pts))
        p2 == pointAt(pts, i)
        p3 == pointAt(pts, i + 1)
        p4 == pointAt(pts, i + 2)
    IN  Plus(distance(p1, p3), distance(p2, p4)) < Plus(distance(p1, p2), distance(p3, p4))

\* The while loop from position i on: the ids pushed to newTour.
RECURSIVE zigzagWalk(_, _)
zigzagWalk(tourPoints, i) ==
    IF ~(i < Len(tourPoints)) THEN <<>>
    ELSE IF Len(tourPoints) - i > 2 /\ shouldZigzag(i, tourPoints)
    THEN << tourPoints[i].originalId,
            pointAt(tourPoints, i + 1).originalId,
            pointAt(tourPoints, i).originalId,
            pointAt(tourPoints, i + 2).originalId >> \o zigzagWalk(tourPoints, i + 3)
    ELSE << tourPoints[i].originalId,
            pointAt(tourPoints, i).originalId >> \o zigzagWalk(tourPoints, i + 1)

\* [...new Set(newTour)]: the first occurrence of each id, in order.
RECURSIVE dedupe(_, _)
dedupe(list, seen) ==
    IF list = <<>> THEN <<>>
    ELSE IF Head(list) \in seen THEN dedupe(Tail(list), seen)
    ELSE <<Head(list)>> \o dedupe(Tail(list), seen \cup {Head(list)})

zigzagOptimize(tourIndices, pts) ==
    LET tourPoints == [p \in 1 .. Len(tourIndices) |->
                          [x |-> pts[tourIndices[p] + 1].x,
                           y |-> pts[tourIndices[p] + 1].y,
                           originalId |-> tourIndices[p]]]
    IN  dedupe(zigzagWalk(tourPoints, 1), {})

(***************************************************************************)
(* The four functions above as calls: each returns at once.                *)
(***************************************************************************)
SonarGridSizes == {1, DefaultGridSize}

SonarVisitCall ==
    /\ call.fn = "none"
    /\ \E gridSize \in SonarGridSizes :
           call' = [call EXCEPT !.fn = "sonarVisit", !.gridSize = gridSize,
                       !.ret = [kind |-> "tour", tour |-> sonarVisit(points, gridSize)]]
    /\ UNCHANGED <<n, graph, exactVars, twoOpt, greedy, points, anneal, genetic>>

AngularSortCall ==
    /\ call.fn = "none"
    /\ call' = [call EXCEPT !.fn = "angularSort",
                   !.ret = [kind |-> "tour", tour |-> angularSort(points)]]
    /\ UNCHANGED <<n, graph, exactVars, twoOpt, greedy, points, anneal, genetic>>

NearestNeighborCall ==
    /\ call.fn = "none"
    /\ \E startCity \in Cities(n) :
           call' = [call EXCEPT !.fn = "nearestNeighbor", !.startCity = startCity,
                       !.ret = nearestNeighbor(points, graph, startCity)]
    /\ UNCHANGED <<n, graph, exactVars, twoOpt, greedy, points, anneal, genetic>>

ZigzagCall ==
    /\ call.fn = "none"
    /\ \E tourIndices \in InputTours(n) :
           call' = [call EXCEPT !.fn = "zigzag", !.tourIndices = tourIndices,
                       !.ret = [kind |-> "tour", tour |-> zigzagOptimize(tourIndices, points)]]
    /\ UNCHANGED <<n, graph, exactVars, twoOpt, greedy, points, anneal, genetic>>

(***************************************************************************)
(* index.js: SimulatedAnnealing.optimize(graph, initialTour,               *)
(* maxIterations)                                                          *)
(***************************************************************************)
\* The swap loop writing newTour[left] = newTour[right] only: the first half
\* of the segment takes the mirrored entries, the second half keeps its own.
reverseBetweenHalf(t, left, right) ==
    [p \in 1 .. Len(t) |->
        IF p - 1 >= left /\ p - 1 <= right /\ 2 * (p - 1) < left + right
        THEN t[(right - ((p - 1) - left)) + 1]
        ELSE t[p]]

\* The swap loop of lines 137-141: the segment left .. right reversed.
reverseBetween(t, left, right) ==
    [p \in 1 .. Len(t) |->
        IF p - 1 >= left /\ p - 1 <= right THEN t[(right - ((p - 1) - left)) + 1]
        ELSE t[p]]

\* oldDist and newDist of lines 124-127, for minIdx < maxIdx.
oldDist(t, g, minIdx, maxIdx) ==
    LET k == Len(t)
    IN  Plus(g[t[((minIdx - 1 + k) % k) + 1]][t[minIdx + 1]],
             g[t[maxIdx + 1]][t[((maxIdx + 1) % k) + 1]])

newDist(t, g, minIdx, maxIdx) ==
    LET k == Len(t)
    IN  Plus(g[t[((minIdx - 1 + k) % k) + 1]][t[maxIdx + 1]],
             g[t[minIdx + 1]][t[((maxIdx + 1) % k) + 1]])

\* The pairs (minIdx, maxIdx) the two draws can give: i in 0 .. n-2, and j
\* any other index.
drawnPairs(k) == {pr \in Cities(k) \X Cities(k) : pr[1] < pr[2]}

AnnealCaps == 0 .. MaxAnnealIterations

\* optimize is called: lines 104-110.
AnnealCall ==
    /\ anneal.pc = "idle"
    /\ \E initialTour \in InputTours(n), maxIterations \in AnnealCaps :
           anneal' = [pc |-> "for", initialTour |-> initialTour,
                      maxIterations |-> maxIterations,
                      currentTour |-> initialTour,
                      currentLength |-> calculateTourLength(initialTour, graph),
                      bestTour |-> initialTour,
                      bestLength |-> calculateTourLength(initialTour, graph),
                      iter |-> 0, cooled |-> 0]
    /\ UNCHANGED <<n, graph, exactVars, twoOpt, greedy, points, call, genetic>>

\* An iteration on a tour of one city: j is 1, currentTour[1] is undefined
\* and graph[undefined][..] throws a TypeError.
AnnealThrow ==
    /\ anneal.pc = "for"
    /\ anneal.iter < anneal.maxIterations
    /\ Len(anneal.currentTour) = 1
    /\ anneal' = [anneal EXCEPT !.pc = "thrown"]
    /\ UNCHANGED <<n, graph, exactVars, twoOpt, greedy, points, call, genetic>>

\* AnnealAccept without the test of lines 145-148: bestTour follows
\* currentTour, so optimize returns the last tour accepted.
AnnealAcceptLast ==
    /\ anneal.pc = "for"
    /\ anneal.iter < anneal.maxIterations
    /\ \E pr \in drawnPairs(Len(anneal.currentTour)) :
           LET newTour == reverseBetween(anneal.currentTour, pr[1], pr[2])
               length == calculateTourLength(newTour, graph)
           IN  anneal' = [anneal EXCEPT
                   !.currentTour = newTour,
                   !.currentLength = length,
                   !.bestTour = newTour,
                   !.bestLength = length,
                   !.iter = @ + 1,
                   !.cooled = @ + 1]
    /\ UNCHANGED <<n, graph, exactVars, twoOpt, greedy, points, call, genetic>>

\* An iteration that accepts the neighbor: delta < 0, or the draw is below
\* Math.exp(-delta / temperature), which is positive.
AnnealAccept ==
    /\ anneal.pc = "for"
    /\ anneal.iter < anneal.maxIterations
    /\ \E pr \in drawnPairs(Len(anneal.currentTour)) :
           LET newTour == reverseBetween(anneal.currentTour, pr[1], pr[2])
               length == calculateTourLength(newTour, graph)
           IN  anneal' = [anneal EXCEPT
                   !.currentTour = newTour,
                   !.currentLength = length,
                   !.bestTour = IF length < anneal.bestLength THEN newTour ELSE @,
                   !.bestLength = IF length < anneal.bestLength THEN length ELSE @,
                   !.iter = @ + 1,
                   !.cooled = @ + 1]
    /\ UNCHANGED <<n, graph, exactVars, twoOpt, greedy, points, call, genetic>>

\* An iteration that rejects the neighbor: delta > 0 and the draw is not
\* below Math.exp(-delta / temperature), which is below 1.  Line 151 cools
\* the temperature after the if, taken or not (cooled counts line 151).
AnnealReject ==
    /\ anneal.pc = "for"
    /\ anneal.iter < anneal.maxIterations
    /\ \E pr \in drawnPairs(Len(anneal.currentTour)) :
           newDist(anneal.currentTour, graph, pr[1], pr[2])
               > oldDist(anneal.currentTour, graph, pr[1], pr[2])
    /\ anneal' = [anneal EXCEPT !.iter = @ + 1, !.cooled = @ + 1]
    /\ UNCHANGED <<n, graph, exactVars, twoOpt, greedy, points, call, genetic>>

\* The for test fails: optimize returns bestTour.
AnnealReturn ==
    /\ anneal.pc = "for"
    /\ ~(anneal.iter < anneal.maxIterations)
    /\ anneal' = [anneal EXCEPT !.pc = "done"]
    /\ UNCHANGED <<n, graph, exactVars, twoOpt, greedy, points, call, genetic>>

NextAnneal ==
    \/ AnnealCall
    \/ AnnealThrow
    \/ AnnealAccept
    \/ AnnealReject
    \/ AnnealReturn

(***************************************************************************)
(* genetic.js: GeneticAlgorithm.optimize(graph, n, populationSize,         *)
(* generations, mutationRate)                                              *)
(***************************************************************************)
\* The draws of randomTour's shuffle: j = draws[i] in 0..i for i = k-1 .. 1.
Draws(k) == {d \in [1 .. (k - 1) -> Cities(k)] : \A i \in 1 .. (k - 1) : d[i] <= i}

\* The Fisher-Yates loop of lines 34-37 from position i down.
RECURSIVE shuffleFrom(_, _, _)
shuffleFrom(tour, i, draws) ==
    IF ~(i > 0) THEN tour
    ELSE shuffleFrom(SwapAt(tour, i, draws[i]), i - 1, draws)

\* randomTour(k) with the drawn positions.
randomTour(k, draws) == shuffleFrom(Identity(k), k - 1, draws)

\* The tours randomTour(k) can return.
RandomTours(k) == {randomTour(k, draws) : draws \in Draws(k)}

\* The loop of lines 63-69: the child after parent2's cities from offset i
\* on are placed, idx being the next free slot.
RECURSIVE crossoverFill(_, _, _, _, _, _)
crossoverFill(child, used, parent2, end, i, idx) ==
    IF ~(i < Len(parent2)) THEN child
    ELSE LET city == parent2[((end + 1 + i) % Len(parent2)) + 1]
         IN  IF city \notin used
             THEN crossoverFill([child EXCEPT ![idx + 1] = city], used, parent2, end,
                                i + 1, (idx + 1) % Len(parent2))
             ELSE crossoverFill(child, used, parent2, end, i + 1, idx)

\* crossover with idx = 0 for idx = (end + 1) % n: the fill starts at the
\* first slot, whatever the segment.
crossoverFromZero(parent1, parent2, start, end) ==
    crossoverFill([p \in 1 .. Len(parent1) |->
                      IF p - 1 >= start /\ p - 1 <= end THEN parent1[p] ELSE -1],
                  {parent1[p] : p \in (start + 1) .. (end + 1)},
                  parent2, end, 0, 0)

\* crossover(parent1, parent2) with the drawn segment start .. end.
crossover(parent1, parent2, start, end) ==
    crossoverFill([p \in 1 .. Len(parent1) |->
                      IF p - 1 >= start /\ p - 1 <= end THEN parent1[p] ELSE -1],
                  {parent1[p] : p \in (start + 1) .. (end + 1)},
                  parent2, end, 0, (end + 1) % Len(parent1))

\* mutate(tour) with the drawn positions i and j.
mutate(tour, i, j) == [tour EXCEPT ![i + 1] = tour[j + 1], ![j + 1] = tour[i + 1]]

\* The quanta of a fitness per unit: 1 / length then has all of a Number's
\* significant bits for every length the matrices give.
FitnessQuanta == Pow2(2 * Precision + 1)

\* 1 / calculateTourLength(tour, graph), in fitness quanta.
fitness(length) == IF length = 0 THEN Infinity ELSE Quotient(FitnessQuanta, length)

\* fitnesses[a] > fitnesses[b], for the tours of lengthA and lengthB.
fitter(lengthA, lengthB) == fitness(lengthA) > fitness(lengthB)

\* The elitism loop left out: bestIdx stays 0.
bestIdxFirst(population, g, i, bestIdx) == 0

\* The elitism loop of lines 126-129: bestIdx after i, i + 1, .. are tried.
RECURSIVE bestIdxLoop(_, _, _, _)
bestIdxLoop(population, g, i, bestIdx) ==
    IF ~(i < Len(population)) THEN bestIdx
    ELSE IF fitter(calculateTourLength(population[i + 1], g),
                   calculateTourLength(population[bestIdx + 1], g))
    THEN bestIdxLoop(population, g, i + 1, i)
    ELSE bestIdxLoop(population, g, i + 1, bestIdx)

\* The individuals select() can return.  With a tour of length 0 the total
\* fitness is Infinity, r never becomes <= 0 and the last one is returned.
selectable(population, g) ==
    IF \E a \in 1 .. Len(population) : calculateTourLength(population[a], g) = 0
    THEN {population[Len(population)]}
    ELSE {population[a] : a \in 1 .. Len(population)}

\* The children one round of the while loop can push.
children(population, g, k) ==
    LET crossed == {crossover(parent1, parent2, seg[1], seg[2]) :
                        parent1 \in selectable(population, g),
                        parent2 \in selectable(population, g),
                        seg \in {s \in Cities(k) \X Cities(k) : s[1] <= s[2]}}
    IN  crossed \cup {mutate(child, i, j) : child \in crossed, i \in Cities(k), j \in Cities(k)}

\* The loop of lines 153-159 left out: the elite at index 0 is returned.
bestTourElite(population, g, i, bestTour) == population[1]

\* The loop of lines 153-159: the first tour of the least length.
RECURSIVE bestTourLoop(_, _, _, _)
bestTourLoop(population, g, i, bestTour) ==
    IF i > Len(population) THEN bestTour
    ELSE IF calculateTourLength(population[i], g) < calculateTourLength(bestTour, g)
    THEN bestTourLoop(population, g, i + 1, population[i])
    ELSE bestTourLoop(population, g, i + 1, bestTour)

\* Population sizes: up to MaxPopulation tours below the test instance's
\* size and on the tests' matrix, a single tour on the other matrices.
PopulationSizes(k, g) ==
    IF k < TestN \/ g = SquareGraph THEN 1 .. MaxPopulation ELSE {1}

\* optimize is called: the population is drawn, lines 102-105.
GeneticCall ==
    /\ genetic.pc = "idle"
    /\ \E populationSize \in PopulationSizes(n, graph), generations \in 0 .. MaxGenerations :
           \E population \in [1 .. populationSize -> RandomTours(n)] :
               genetic' = [pc |-> "for", populationSize |-> populationSize,
                           generations |-> generations, population |-> population,
                           gen |-> 0, bestTour |-> <<>>, drawn |-> population]
    /\ UNCHANGED <<n, graph, exactVars, twoOpt, greedy, points, call, anneal>>

\* One generation: the elite, then populationSize - 1 children.
GeneticGeneration ==
    /\ genetic.pc = "for"
    /\ genetic.gen < genetic.generations
    /\ \E rest \in [1 .. (genetic.populationSize - 1) ->
                       children(genetic.population, graph, n)] :
           genetic' = [genetic EXCEPT
               !.population =
                   <<genetic.population[bestIdxLoop(genetic.population, graph, 1, 0) + 1]>>
                   \o rest,
               !.gen = @ + 1]
    /\ UNCHANGED <<n, graph, exactVars, twoOpt, greedy, points, call, anneal>>

\* The for test fails: optimize returns the best tour of the population.
GeneticReturn ==
    /\ genetic.pc = "for"
    /\ ~(genetic.gen < genetic.generations)
    /\ genetic' = [genetic EXCEPT
           !.pc = "done",
           !.bestTour = bestTourLoop(genetic.population, graph, 1, genetic.population[1])]
    /\ UNCHANGED <<n, graph, exactVars, twoOpt, greedy, points, call, anneal>>

NextGenetic ==
    \/ GeneticCall
    \/ GeneticGeneration
    \/ GeneticReturn

(***************************************************************************)
(* The heuristics against the optimum, as in the tests' efficiency         *)
(* verification: findOptimal is called on the instance, then one of the    *)
(* heuristics.  The point list is not empty, so generateTour's walk ends   *)
(* by its break and GreedyReturn has no part.                              *)
(***************************************************************************)
Heuristics ==
    {"sonarVisit", "angularSort", "nearestNeighbor", "greedyEdge", "twoOpt", "zigzag",
     "simulatedAnnealing", "geneticAlgorithm"}

\* Heuristic h has been called.
called(h) ==
    CASE h = "greedyEdge" -> greedy.pc # "idle"
      [] h = "twoOpt" -> twoOpt.pc # "idle"
      [] h = "simulatedAnnealing" -> anneal.pc # "idle"
      [] h = "geneticAlgorithm" -> genetic.pc # "idle"
      [] OTHER -> call.fn = h

\* The tour heuristic h has returned: a set of one tour, or of none.
returnedTour(h) ==
    CASE h = "greedyEdge" -> IF greedy.pc = "done" THEN {greedy.tour} ELSE {}
      [] h = "twoOpt" -> IF twoOpt.pc = "done" THEN {twoOpt.currentTour} ELSE {}
      [] h = "simulatedAnnealing" -> IF anneal.pc = "done" THEN {anneal.bestTour} ELSE {}
      [] h = "geneticAlgorithm" -> IF genetic.pc = "done" THEN {genetic.bestTour} ELSE {}
      [] OTHER -> IF call.fn = h /\ call.ret.kind = "tour" THEN {call.ret.tour} ELSE {}

\* findOptimal has returned and no heuristic but h has been called.
Turn(h) ==
    /\ exactRet["findOptimal"] # NoValue
    /\ \A other \in Heuristics \ {h} : ~called(other)

InitHeuristics ==
    /\ \E pts \in PointLists :
           /\ points = pts
           /\ n = Len(pts)
           /\ graph = createDistanceMatrix(pts)
    /\ ExactIdle
    /\ twoOpt = TwoOptIdle
    /\ greedy = GreedyIdle
    /\ RestIdle

NextHeuristics ==
    \/ FindOptimalBruteForce
    \/ BruteForceReturn
    \/ (Turn("sonarVisit") /\ SonarVisitCall)
    \/ (Turn("angularSort") /\ AngularSortCall)
    \/ (Turn("nearestNeighbor") /\ NearestNeighborCall)
    \/ (Turn("zigzag") /\ ZigzagCall)
    \/ (Turn("greedyEdge") /\ GreedyCall)
    \/ GreedyScanEnd
    \/ GreedyRejectDegree
    \/ GreedyRejectCycle
    \/ GreedyAccept
    \/ GreedyWalk
    \/ (Turn("twoOpt") /\ TwoOptCall)
    \/ TwoOptPass
    \/ TwoOptSkip
    \/ TwoOptKeep
    \/ TwoOptReverse
    \/ TwoOptReturn
    \/ (Turn("simulatedAnnealing") /\ AnnealCall)
    \/ AnnealThrow
    \/ AnnealAccept
    \/ AnnealReject
    \/ AnnealReturn
    \/ (Turn("geneticAlgorithm") /\ GeneticCall)
    \/ GeneticGeneration
    \/ GeneticReturn

SpecHeuristics == InitHeuristics /\ [][NextHeuristics]_vars

(***************************************************************************)
(* The tests' unit square: the exact solvers and improve on it.  A call is *)
(* made when no other is running.                                          *)
(***************************************************************************)
InitSquare ==
    /\ n = TestN
    /\ graph = SquareGraph
    /\ ExactIdle
    /\ twoOpt = TwoOptIdle
    /\ greedy = GreedyIdle
    /\ points = <<>>
    /\ RestIdle

NextSquare ==
    \/ (twoOpt.pc \in {"idle", "done"} /\ NextExact)
    \/ (stack = <<>> /\ NextTwoOpt)

SpecSquare == InitSquare /\ [][NextSquare]_vars

(***************************************************************************)
(* The functions that read only the matrix, on matrices of every kind.     *)
(* NearestNeighbor.generateTour reads of its points only their count.      *)
(***************************************************************************)
\* Matrices with a zero diagonal that need not be symmetric.
PlainGraphs(k) ==
    {[i \in Cities(k) |-> [j \in Cities(k) |-> IF i = j THEN 0 ELSE w[<<i, j>>]]] :
        w \in [{pr \in Cities(k) \X Cities(k) : pr[1] # pr[2]} -> DistValues(k)]}

\* The instances: the symmetric ones, and the others below the test
\* instance's size.
MatrixInstances ==
    SmallInstances
    \cup UNION {{[n |-> k, graph |-> g] : g \in PlainGraphs(k)} : k \in 2 .. (TestN - 1)}

\* A point list of which only the length is read.
countedPoints(k) == [p \in 1 .. k |-> [id |-> p - 1]]

InitMatrix ==
    /\ \E inst \in MatrixInstances :
           /\ n = inst.n
           /\ graph = inst.graph
           /\ points = countedPoints(inst.n)
    /\ ExactIdle
    /\ twoOpt = TwoOptIdle
    /\ greedy = GreedyIdle
    /\ RestIdle

\* calculateMST(graph) is called.
CalculateMSTCall ==
    /\ call.fn = "none"
    /\ call' = [call EXCEPT !.fn = "calculateMST",
                   !.ret = [kind |-> "number", value |-> calculateMST(graph)]]
    /\ UNCHANGED <<n, graph, exactVars, twoOpt, greedy, points, anneal, genetic>>

NextMatrix ==
    \/ NearestNeighborCall
    \/ CalculateMSTCall

SpecMatrix == InitMatrix /\ [][NextMatrix]_vars

(***************************************************************************)
(* The constructors that read the points' angles, sonarVisit and          *)
(* angularSort, on each point list, whatever the optimum is.               *)
(***************************************************************************)
InitPoints ==
    /\ \E pts \in PointLists :
           /\ points = pts
           /\ n = Len(pts)
           /\ graph = createDistanceMatrix(pts)
    /\ ExactIdle
    /\ twoOpt = TwoOptIdle
    /\ greedy = GreedyIdle
    /\ RestIdle

NextPoints ==
    \/ SonarVisitCall
    \/ AngularSortCall

SpecPoints == InitPoints /\ [][NextPoints]_vars

(***************************************************************************)
(* Zigzag.optimize on each point list and input tour.  It reads the        *)
(* points' coordinates only.                                               *)
(***************************************************************************)
\* Four points some ten sides apart: their distances have more significant
\* bits than a Number keeps, so the sums of two of them are rounded.
FarPoints ==
    << [x |-> 4, y |-> 32, id |-> 0],
       [x |-> 38, y |-> 23, id |-> 1],
       [x |-> 4, y |-> 8, id |-> 2],
       [x |-> 16, y |-> 13, id |-> 3] >>

InitZigzag ==
    /\ \E pts \in PointLists \cup {FarPoints} :
           /\ points = pts
           /\ n = Len(pts)
           /\ graph = createDistanceMatrix(pts)
    /\ ExactIdle
    /\ twoOpt = TwoOptIdle
    /\ greedy = GreedyIdle
    /\ RestIdle

NextZigzag ==
    \/ ZigzagCall

SpecZigzag == InitZigzag /\ [][NextZigzag]_vars

(***************************************************************************)
(* SimulatedAnnealing.optimize on the matrix of each point list, from      *)
(* every initial tour.                                                     *)
(***************************************************************************)
InitAnneal ==
    /\ \E pts \in PointLists \cup {FarPoints} :
           /\ points = pts
           /\ n = Len(pts)
           /\ graph = createDistanceMatrix(pts)
    /\ ExactIdle
    /\ twoOpt = TwoOptIdle
    /\ greedy = GreedyIdle
    /\ RestIdle

SpecAnneal == InitAnneal /\ [][NextAnneal]_vars

\* A call of optimize runs on: the for loop takes its next step.  The
\* instances are the lists of one point and the tests' square.
InitAnnealRuns ==
    /\ InitAnneal
    /\ (n = 1 \/ points = testPoints)

SpecAnnealRuns == InitAnnealRuns /\ [][NextAnneal]_vars /\ WF_vars(NextAnneal)

(***************************************************************************)
(* GeneticAlgorithm: optimize on a matrix, and its exported randomTour,    *)
(* crossover and mutate called directly.  A call is made when no other is  *)
(* running.                                                                *)
(***************************************************************************)
\* randomTour(n) is called.
RandomTourCall ==
    /\ call.fn = "none"
    /\ \E draws \in Draws(n) :
           call' = [call EXCEPT !.fn = "randomTour", !.args = <<draws>>,
                       !.ret = [kind |-> "tour", tour |-> randomTour(n, draws)]]
    /\ UNCHANGED <<n, graph, exactVars, twoOpt, greedy, points, anneal, genetic>>

\* crossover(parent1, parent2) is called on two tours; start and end are
\* drawn with start <= end <= n - 1.
CrossoverCall ==
    /\ call.fn = "none"
    /\ \E parent1 \in Perms(n), parent2 \in Perms(n),
          seg \in {s \in Cities(n) \X Cities(n) : s[1] <= s[2]} :
           call' = [call EXCEPT !.fn = "crossover",
                       !.args = <<parent1, parent2, seg[1], seg[2]>>,
                       !.ret = [kind |-> "tour",
                                tour |-> crossover(parent1, parent2, seg[1], seg[2])]]
    /\ UNCHANGED <<n, graph, exactVars, twoOpt, greedy, points, anneal, genetic>>

\* mutate(tour) is called; i and j are drawn in 0..n-1.
MutateCall ==
    /\ call.fn = "none"
    /\ \E tour \in Perms(n), i \in Cities(n), j \in Cities(n) :
           call' = [call EXCEPT !.fn = "mutate", !.args = <<tour, i, j>>,
                       !.ret = [kind |-> "tour", tour |-> mutate(tour, i, j)]]
    /\ UNCHANGED <<n, graph, exactVars, twoOpt, greedy, points, anneal, genetic>>

\* The matrices given to optimize: those below the test instance's size,
\* the tests' matrix, the matrix of the far points and the matrix of tied
\* fitnesses.
\* Three cities at the distances 2^(Precision-1) + 0, 1, 2: the two
\* directions of their cycle are read as lengths a rounding error apart,
\* and the rounded reciprocals of the two lengths are the same Number.
TiedFitnessGraph ==
    [i \in Cities(3) |-> [j \in Cities(3) |->
        IF i = j THEN 0 ELSE Pow2(Precision - 1) + ((i + j + 1) % 3)]]

GeneticInstances ==
    {inst \in SmallInstances : inst.n < TestN}
    \cup {[n |-> TestN, graph |-> SquareGraph],
          [n |-> Len(FarPoints), graph |-> createDistanceMatrix(FarPoints)]}
    \cup {[n |-> 3, graph |-> TiedFitnessGraph]}

InitGenetic ==
    /\ \E inst \in GeneticInstances : n = inst.n /\ graph = inst.graph
    /\ ExactIdle
    /\ twoOpt = TwoOptIdle
    /\ greedy = GreedyIdle
    /\ points = <<>>
    /\ RestIdle

NextGeneticCalls ==
    \/ (call.fn = "none" /\ GeneticCall)
    \/ GeneticGeneration
    \/ GeneticReturn
    \/ (genetic.pc = "idle" /\ RandomTourCall)
    \/ (genetic.pc = "idle" /\ CrossoverCall)
    \/ (genetic.pc = "idle" /\ MutateCall)

SpecGenetic == InitGenetic /\ [][NextGeneticCalls]_vars

(***************************************************************************)
(* utils.js calculateEfficiency on pairs of lengths: the short lengths     *)
(* -1 .. MaxLength with each other, and the three longest Numbers below    *)
(* 2^Precision, whose neighbours are one quantum apart, with each other.   *)
(***************************************************************************)
EfficiencyInputs ==
    ((-1 .. MaxLength) \X (0 .. MaxLength))
    \cup (((Pow2(Precision) - 3) .. (Pow2(Precision) - 1))
          \X ((Pow2(Precision) - 3) .. (Pow2(Precision) - 1)))

InitEfficiency ==
    /\ n = 0
    /\ graph = <<>>
    /\ points = <<>>
    /\ ExactIdle
    /\ twoOpt = TwoOptIdle
    /\ greedy = GreedyIdle
    /\ anneal = AnnealIdle
    /\ genetic = GeneticIdle
    /\ \E lengths \in EfficiencyInputs : call = [NoCall EXCEPT !.args = lengths]

\* calculateEfficiency(solutionLength, optimalLength) is called.
EfficiencyCall ==
    /\ call.fn = "none"
    /\ call' = [call EXCEPT !.fn = "calculateEfficiency",
                   !.ret = [kind |-> "number",
                            value |-> calculateEfficiency(call.args[1], call.args[2])]]
    /\ UNCHANGED <<n, graph, exactVars, twoOpt, greedy, points, anneal, genetic>>

NextEfficiency ==
    \/ EfficiencyCall

SpecEfficiency == InitEfficiency /\ [][NextEfficiency]_vars

(***************************************************************************)
(* utils.js calculateTourLength on each ordering of the cities of a        *)
(* symmetric matrix.                                                       *)
(***************************************************************************)
InitTourLength ==
    /\ \E inst \in SmallInstances : n = inst.n /\ graph = inst.graph
    /\ ExactIdle
    /\ twoOpt = TwoOptIdle
    /\ greedy = GreedyIdle
    /\ points = <<>>
    /\ RestIdle

\* calculateTourLength(tour, graph) is called.
CalculateTourLengthCall ==
    /\ call.fn = "none"
    /\ \E tour \in InputTours(n) :
           call' = [call EXCEPT !.fn = "calculateTourLength",
                       !.tourIndices = tour,
                       !.ret = [kind |-> "number",
                                value |-> calculateTourLength(tour, graph)]]
    /\ UNCHANGED <<n, graph, exactVars, twoOpt, greedy, points, anneal, genetic>>

NextTourLength ==
    \/ CalculateTourLengthCall

SpecTourLength == InitTourLength /\ [][NextTourLength]_vars

(***************************************************************************)
(* heldKarp followed round by round of its size loop, on the matrices of   *)
(* every kind.  search holds dp and parent, the size of the next round and *)
(* the lookups that found no entry.                                        *)
(***************************************************************************)
InitHeldKarp ==
    /\ \E inst \in MatrixInstances : n = inst.n /\ graph = inst.graph
    /\ ExactIdle
    /\ twoOpt = TwoOptIdle
    /\ greedy = GreedyIdle
    /\ points = <<>>
    /\ RestIdle

\* heldKarp(graph, n) is called and fills its base case.
HeldKarpBaseCase ==
    /\ stack = <<>>
    /\ exactRet["heldKarp"] = NoValue
    /\ stack' = <<"heldKarp">>
    /\ search' = [kind |-> "rounds", tables |-> heldKarpBase(graph, n), size |-> 2,
                  missed |-> {}]
    /\ UNCHANGED <<n, graph, exactRet, invoked, twoOpt, greedy, restVars>>

\* One round of the size loop.
HeldKarpRound ==
    /\ stack = <<"heldKarp">>
    /\ search.size < n
    /\ search' = [search EXCEPT
                     !.tables = heldKarpSize(search.tables, graph, n, search.size),
                     !.size = @ + 1,
                     !.missed = @ \cup missedLookups(search.tables.dp, n, search.size)]
    /\ UNCHANGED <<n, graph, stack, exactRet, invoked, twoOpt, greedy, restVars>>

\* The size loop has ended: the last city is chosen, the tour is
\* reconstructed and returned.  The tables stay for inspection.
HeldKarpEnd ==
    /\ stack = <<"heldKarp">>
    /\ ~(search.size < n)
    /\ LET best == lastLoop(search.tables.dp, graph, n, 1,
                            [minLength |-> Infinity, lastCity |-> -1])
       IN  exactRet' = [exactRet EXCEPT !["heldKarp"] =
               TourResult(reconstruct(search.tables.parent, <<0>>, fullMask(n),
                                      best.lastCity),
                          best.minLength)]
    /\ stack' = <<>>
    /\ UNCHANGED <<n, graph, search, invoked, twoOpt, greedy, restVars>>

NextHeldKarp ==
    \/ HeldKarpBaseCase
    \/ HeldKarpRound
    \/ HeldKarpEnd

SpecHeldKarp == InitHeldKarp /\ [][NextHeldKarp]_vars

(***************************************************************************)
(* Vocabulary of the properties.                                           *)
(***************************************************************************)
Returned(e) == exactRet[e] # NoValue

\* The largest entry of the matrix.
LongestEdge(g, k) ==
    CHOOSE m \in {g[i][j] : i, j \in Cities(k)} :
        \A i, j \in Cities(k) : g[i][j] <= m

IsSymmetric(g, k) == \A i, j \in Cities(k) : g[i][j] = g[j][i]

\* No sum of at most k entries of the matrix is rounded: each fits a Number.
SumsExact(g, k) == k = 0 \/ k * LongestEdge(g, k) < Pow2(Precision)

(***************************************************************************)
(* Properties of the exact solvers (SpecExact).                            *)
(***************************************************************************)
\* C1: for every n with 1 <= n <= 10 and every symmetric non-negative
\* matrix, bruteForceExact(graph, n).length = heldKarp(graph, n).length.
C1_ExactLengthsAgree ==
    (/\ n >= 1
     /\ n <= BruteForceLimit
     /\ Returned("bruteForceExact")
     /\ Returned("heldKarp"))
    => exactRet["bruteForceExact"].length = exactRet["heldKarp"].length

\* C2 as stated: bruteForceExact returns a globally optimal tour: a
\* permutation of 0..n-1 with city 0 first, whose reported length is its
\* calculateTourLength and is <= the length of every permutation of 0..n-1
\* taken as a cyclic tour.
C2_BruteForceOptimal ==
    Returned("bruteForceExact") =>
        LET r == exactRet["bruteForceExact"]
        IN  /\ r.kind = "result"
            /\ IsPermutation(r.tour, n)
            /\ r.tour[1] = 0
            /\ r.length = calculateTourLength(r.tour, graph)
            /\ \A p \in Perms(n) : r.length <= calculateTourLength(p, graph)

\* C2 amended: bruteForceExact returns a permutation of 0..n-1 with city 0
\* first, whose reported length is its calculateTourLength and is <= the
\* calculateTourLength of every permutation that starts with city 0 (the
\* orderings the search visits); it is <= that of every permutation, the
\* rotations included, when the matrix's sums are not rounded.
C2_BruteForceOptimalAmongVisited ==
    Returned("bruteForceExact") =>
        LET r == exactRet["bruteForceExact"]
            exact == SumsExact(graph, n)
        IN  /\ r.kind = "result"
            /\ IsPermutation(r.tour, n)
            /\ r.tour[1] = 0
            /\ r.length = calculateTourLength(r.tour, graph)
            /\ \A p \in Perms(n) :
                   (p[1] = 0 \/ exact) => r.length <= calculateTourLength(p, graph)

\* C2's case: on four cities with rounded sums the search has replaced the
\* initial ordering 0,1,2,3 by a strictly shorter one.
C2_Witness ==
    /\ n = TestN
    /\ ~SumsExact(graph, n)
    /\ Returned("bruteForceExact")
    /\ exactRet["bruteForceExact"].tour # Identity(n)
    /\ exactRet["bruteForceExact"].length < calculateTourLength(Identity(n), graph)

\* C3: for every n >= 1, heldKarp returns a tour of exactly n entries, a
\* permutation of 0..n-1, and its reported length is the calculateTourLength
\* of that tour.
C3_HeldKarpTourValid ==
    (n >= 1 /\ Returned("heldKarp")) =>
        LET r == exactRet["heldKarp"]
        IN  /\ Len(r.tour) = n
            /\ IsPermutation(r.tour, n)
            /\ r.length = calculateTourLength(r.tour, graph)

\* C4: findOptimal returns null if and only if n > 20; for n > 20 it returns
\* without invoking bruteForceExact or heldKarp, and for n <= 20 it returns
\* a {tour, length} result.
C4_FindOptimalNullIffInfeasible ==
    /\ Returned("findOptimal") =>
           (exactRet["findOptimal"] = Null <=> n > FeasibleCeiling)
    /\ n > FeasibleCeiling =>
           (invoked = {} /\ (stack = <<>> \/ stack[1] # "findOptimal"))
    /\ (Returned("findOptimal") /\ n <= FeasibleCeiling) =>
           (/\ exactRet["findOptimal"].kind = "result"
            /\ invoked # {})

\* C4's case: findOptimal has returned null on the 25-city instance.
C4_Witness ==
    /\ n = LargeN
    /\ exactRet["findOptimal"] = Null

\* C5 as stated: bruteForceExact and heldKarp, called directly with n > 20,
\* return null instead of computing a result.
C5_SolversSignalInfeasible ==
    n > FeasibleCeiling =>
        /\ stack = <<>>
        /\ \A e \in {"bruteForceExact", "heldKarp"} : exactRet[e] \in {NoValue, Null}

\* C5 amended: bruteForceExact and heldKarp make no ceiling test.  Called
\* directly they start their search for every n, n > 20 included
\* (bruteForceExact with the n cities in bestTour, heldKarp with the n - 1
\* base cases in dp), and neither ever returns null: only findOptimal does.
C5_SolversHaveNoCeiling ==
    /\ \A e \in {"bruteForceExact", "heldKarp"} : exactRet[e] # Null
    /\ (stack # <<>> /\ stack[Len(stack)] = "bruteForceExact") =>
           (search # Null /\ Len(search.tour) = n)
    /\ (stack # <<>> /\ stack[Len(stack)] = "heldKarp") =>
           (search # Null /\ Cardinality(DOMAIN search.dp) = n - 1)

\* C5's case: a direct call of heldKarp with n > 20 is in its search.
C5_Witness ==
    /\ n > FeasibleCeiling
    /\ stack = <<"heldKarp">>
    /\ search # Null

(***************************************************************************)
(* Properties of TwoOpt.improve (SpecTwoOpt).                              *)
(***************************************************************************)
TwoOptLength(t) == calculateTourLength(t, graph)

\* C7 as stated: for every input tour, symmetric non-negative matrix and
\* maxIterations, the tour improve returns has calculateTourLength <= that
\* of the input tour, and every reversal it applies strictly decreases the
\* length of the current tour.
C7_TwoOptNeverWorsens ==
    /\ [](twoOpt.pc = "done" =>
              TwoOptLength(twoOpt.currentTour) <= TwoOptLength(twoOpt.tour))
    /\ [][twoOpt'.reversals > twoOpt.reversals =>
              TwoOptLength(twoOpt'.currentTour) < TwoOptLength(twoOpt.currentTour)]_vars

\* C7 amended: on a matrix whose sums are not rounded, for every input tour
\* and maxIterations, the current tour of improve is at every step, and at
\* return, no longer than the input tour, and every reversal it applies
\* strictly decreases the length of the current tour.
C7_TwoOptNeverWorsensExactSums ==
    /\ []((SumsExact(graph, n) /\ twoOpt.pc # "idle") =>
              TwoOptLength(twoOpt.currentTour) <= TwoOptLength(twoOpt.tour))
    /\ [][(SumsExact(graph, n) /\ twoOpt'.reversals > twoOpt.reversals) =>
              TwoOptLength(twoOpt'.currentTour) < TwoOptLength(twoOpt.currentTour)]_vars

\* C7's case: on a matrix whose sums are not rounded, improve has returned
\* after reversals, with a strictly shorter tour.
C7_Witness ==
    /\ SumsExact(graph, n)
    /\ twoOpt.pc = "done"
    /\ twoOpt.reversals >= 2
    /\ TwoOptLength(twoOpt.currentTour) < TwoOptLength(twoOpt.tour)

\* C8: improve keeps the tour a permutation: after every reversal, and at
\* return, currentTour has the input's n entries and holds exactly the ids
\* of the input tour, each once.
C8_TwoOptKeepsPermutation ==
    twoOpt.pc # "idle" =>
        /\ Len(twoOpt.currentTour) = Len(twoOpt.tour)
        /\ Len(twoOpt.currentTour) = n
        /\ IsPermutation(twoOpt.currentTour, n)
        /\ \A c \in Cities(n) :
               Cardinality({a \in 1 .. n : twoOpt.currentTour[a] = c}) =
               Cardinality({a \in 1 .. n : twoOpt.tour[a] = c})

\* C8's case: improve has returned a tour that reversals have reordered.
C8_Witness ==
    /\ twoOpt.pc = "done"
    /\ twoOpt.reversals >= 1
    /\ twoOpt.currentTour # twoOpt.tour
    /\ n = TestN

\* C23: in improve, after an improving reversal is applied the scan restarts
\* from the first index pair of the mutated tour: the pass ends with the
\* reversal (the scan does not continue with the next (i, j) pair of the
\* same pass), so at most one reversal is applied per pass of the outer loop.
C23_TwoOptRestartsAfterReversal ==
    /\ [](twoOpt.reversals <= twoOpt.iterations)
    /\ [][twoOpt'.reversals > twoOpt.reversals => twoOpt'.pc = "while"]_vars

\* No pair (i, j) with j >= i + 2, other than (0, n - 1), has
\* d(t[i],t[j]) + d(t[i+1],t[(j+1) mod n]) < d(t[i],t[i+1]) + d(t[j],t[(j+1) mod n]).
LocallyOptimal(t) ==
    \A i \in 0 .. (Len(t) - 2), j \in 0 .. (Len(t) - 1) :
        (j >= i + 2 /\ ~(i = 0 /\ j = Len(t) - 1)) =>
            ~(Plus(graph[t[i + 1]][t[j + 1]], graph[t[i + 2]][t[((j + 1) % Len(t)) + 1]])
                  < Plus(graph[t[i + 1]][t[i + 2]],
                         graph[t[j + 1]][t[((j + 1) % Len(t)) + 1]]))

\* C24 as stated: improve always terminates after at most maxIterations
\* passes; it returns before reaching the cap exactly when a full pass
\* applied no reversal, and in that case the returned tour is 2-opt locally
\* optimal.
C24_TwoOptTerminates ==
    /\ (twoOpt.pc # "idle") ~> (twoOpt.pc = "done")
    /\ [](twoOpt.iterations <= twoOpt.maxIterations)
    /\ [](twoOpt.pc = "done" =>
              /\ twoOpt.iterations < twoOpt.maxIterations
                     <=> (twoOpt.iterations >= 1 /\ ~twoOpt.improved)
              /\ twoOpt.iterations < twoOpt.maxIterations
                     => LocallyOptimal(twoOpt.currentTour))

\* C24 amended: improve always terminates after at most maxIterations
\* passes; it returns before reaching the cap only when its last pass was
\* a full pass that applied no reversal, and whenever its last pass applied
\* no reversal, before the cap or at it, the returned tour is 2-opt locally
\* optimal.
C24_TwoOptTerminatesLastPass ==
    /\ (twoOpt.pc # "idle") ~> (twoOpt.pc = "done")
    /\ [](twoOpt.iterations <= twoOpt.maxIterations)
    /\ [](twoOpt.pc = "done" =>
              /\ twoOpt.iterations < twoOpt.maxIterations
                     => (twoOpt.iterations >= 1 /\ ~twoOpt.improved)
              /\ (twoOpt.iterations >= 1 /\ ~twoOpt.improved)
                     => LocallyOptimal(twoOpt.currentTour))

\* C24's case: improve has returned before the cap, after a pass that
\* reversed and a pass that did not.
C24_Witness ==
    /\ twoOpt.pc = "done"
    /\ twoOpt.reversals >= 1
    /\ twoOpt.iterations >= 2
    /\ twoOpt.iterations < twoOpt.maxIterations
    /\ twoOpt.currentTour # twoOpt.tour

(***************************************************************************)
(* Properties on the unit square (SpecSquare).                             *)
(***************************************************************************)
\* The crossed tour [0, 2, 1, 3] of the tests.
CrossedTour == <<0, 2, 1, 3>>

\* The perimeter of the unit square, 4, in thousandths.
SquarePerimeter == 4 * SquareSide

\* C9: on the unit square bruteForceExact and heldKarp both return length 4,
\* the crossed tour [0, 2, 1, 3] is strictly longer than 4, and
\* improve([0, 2, 1, 3]) (default maxIterations) returns a tour of length 4.
C9_UnitSquare ==
    /\ Returned("bruteForceExact") => exactRet["bruteForceExact"].length = SquarePerimeter
    /\ Returned("heldKarp") => exactRet["heldKarp"].length = SquarePerimeter
    /\ calculateTourLength(CrossedTour, graph) > SquarePerimeter
    /\ (/\ twoOpt.pc = "done"
        /\ twoOpt.tour = CrossedTour
        /\ twoOpt.maxIterations = DefaultMaxIterations)
       => calculateTourLength(twoOpt.currentTour, graph) = SquarePerimeter

\* C9's case: both solvers and improve([0, 2, 1, 3]) have returned.
C9_Witness ==
    /\ Returned("bruteForceExact")
    /\ Returned("heldKarp")
    /\ twoOpt.pc = "done"
    /\ twoOpt.tour = CrossedTour
    /\ twoOpt.maxIterations = DefaultMaxIterations
    /\ twoOpt.reversals >= 1

(***************************************************************************)
(* Properties of GreedyEdge.generateTour (SpecGreedy).                     *)
(***************************************************************************)
\* The cities reached from `seen` along accepted edges in at most `steps` hops.
RECURSIVE ReachedFrom(_, _, _)
ReachedFrom(adj, seen, steps) ==
    IF steps = 0 THEN seen
    ELSE ReachedFrom(adj,
                     seen \cup {adj[c][a] : c \in seen, a \in 1 .. 2},
                     steps - 1)

\* The accepted edges form one cycle through every city.
IsHamiltonianCycle(st, k) ==
    /\ st.edgeCount = k
    /\ \A c \in Cities(k) : st.degree[c] = 2 /\ Len(st.adj[c]) = 2
    /\ \A c \in Cities(k) : \A a \in 1 .. 2 :
           /\ st.adj[c][a] \in Cities(k) \ {c}
           /\ \E b \in 1 .. 2 : st.adj[st.adj[c][a]][b] = c
    /\ \A c \in Cities(k) : st.adj[c][1] # st.adj[c][2]
    /\ ReachedFrom(st.adj, {0}, k) = Cities(k)

\* C10: for every n >= 3 and every symmetric non-negative matrix, ties
\* included, generateTour accepts exactly n edges that form a single
\* Hamiltonian cycle (every vertex of degree 2), the walk from city 0 never
\* dead-ends before all n cities are visited, and the returned tour is a
\* permutation of 0..n-1.
C10_GreedyHamiltonianCycle ==
    n >= 3 =>
        /\ greedy.pc \in {"walk", "done"} => IsHamiltonianCycle(greedy, n)
        /\ ~greedy.deadEnd
        /\ greedy.pc = "done" => (IsPermutation(greedy.tour, n) /\ greedy.tour[1] = 0)

\* C10's case: generateTour has returned on four cities after rejecting an
\* edge that would have closed a cycle early and one at a full vertex.
C10_Witness ==
    /\ n = TestN
    /\ greedy.pc = "done"
    /\ greedy.scanned >= greedy.edgeCount + 2
    /\ \E c \in Cities(n) : greedy.parent[greedy.parent[c]] # greedy.parent[c]
    /\ Len(greedy.tour) = n

\* The cities joined to those of `seen` by at most `steps` accepted edges.
RECURSIVE JoinedTo(_, _, _)
JoinedTo(adj, seen, steps) ==
    IF steps = 0 THEN seen
    ELSE JoinedTo(adj,
                  seen \cup UNION {{adj[c][a] : a \in 1 .. Len(adj[c])} : c \in seen},
                  steps - 1)

\* a and b are connected by accepted edges.
Connected(st, k, a, b) == b \in JoinedTo(st.adj, {a}, k)

\* The accepted edges, each as the set of its two ends.
AcceptedEdges(st, k) ==
    UNION {{{c, st.adj[c][a]} : a \in 1 .. Len(st.adj[c])} : c \in Cities(k)}

\* The accepted edges form vertex-disjoint simple paths: no city is on more
\* than two of them, and they are as many as the cities less the connected
\* parts, so none closes a cycle.
IsDisjointPaths(st, k) ==
    /\ \A c \in Cities(k) : Len(st.adj[c]) <= 2
    /\ Cardinality(AcceptedEdges(st, k))
           = k - Cardinality({JoinedTo(st.adj, {c}, k) : c \in Cities(k)})

\* The step rejects the scanned edge at line 240, the degree test of line
\* 237 having let it pass.
RejectedForCycle ==
    /\ GreedyScanning
    /\ ~degreeFull(greedy.degree, GreedyEdgeAt)
    /\ greedy'.scanned = greedy.scanned + 1
    /\ greedy'.edgeCount = greedy.edgeCount

\* C30: during GreedyEdge's edge scan, after every accepted or rejected
\* edge, every vertex has degree <= 2; while fewer than n - 1 edges are
\* accepted the accepted edges form vertex-disjoint simple paths (no cycle);
\* find(a) = find(b) holds exactly when a and b are connected by accepted
\* edges; and an edge is rejected for cycle reasons only if fewer than
\* n - 1 edges are placed and it would close a cycle.
C30_GreedyScanInvariant ==
    /\ [](greedy.pc = "scan" =>
             /\ \A c \in Cities(n) :
                    /\ greedy.degree[c] <= 2
                    /\ greedy.degree[c] = Len(greedy.adj[c])
             /\ Cardinality(AcceptedEdges(greedy, n)) = greedy.edgeCount
             /\ greedy.edgeCount < n - 1 => IsDisjointPaths(greedy, n)
             /\ \A a, b \in Cities(n) :
                    (find(greedy.parent, a).root = find(greedy.parent, b).root)
                        <=> Connected(greedy, n, a, b))
    /\ [][RejectedForCycle =>
              /\ greedy.edgeCount < n - 1
              /\ Connected(greedy, n, GreedyEdgeAt.from, GreedyEdgeAt.to)]_vars

\* C30's case: on four cities the scan has just rejected an edge that would
\* have closed a triangle, after accepting two edges, and goes on.
C30_Witness ==
    /\ n = TestN
    /\ greedy.pc = "scan"
    /\ greedy.edgeCount = 2
    /\ greedy.scanned = 3
    /\ {greedy.edges[3].from, greedy.edges[3].to} \notin AcceptedEdges(greedy, n)
    /\ greedy.degree[greedy.edges[3].from] = 1
    /\ greedy.degree[greedy.edges[3].to] = 1
    /\ Connected(greedy, n, greedy.edges[3].from, greedy.edges[3].to)

(***************************************************************************)
(* Properties of the heuristics against the optimum (SpecHeuristics).      *)
(***************************************************************************)
\* C6: on every instance small enough for findOptimal, the tour returned by
\* every heuristic (sonarVisit, angularSort, nearestNeighbor, greedyEdge,
\* twoOpt, zigzag, simulatedAnnealing, geneticAlgorithm) has
\* calculateTourLength >= the optimal length returned by findOptimal.
C6_HeuristicsNeverBeatOptimal ==
    exactRet["findOptimal"].kind = "result" =>
        \A h \in Heuristics : \A tour \in returnedTour(h) :
            calculateTourLength(tour, graph) >= exactRet["findOptimal"].length

(***************************************************************************)
(* Properties of the functions of the matrix (SpecMatrix).                 *)
(***************************************************************************)
\* C11: for every n >= 1, every finite non-negative matrix and every
\* startCity in 0..n-1, NearestNeighbor.generateTour terminates and returns
\* a permutation of 0..n-1 whose first element is startCity and in which
\* each next city is an unvisited city of minimum distance from the city
\* appended before it, the lowest index on ties.
C11_NearestNeighborTour ==
    call.fn = "nearestNeighbor" =>
        /\ call.ret.kind = "tour"
        /\ IsPermutation(call.ret.tour, n)
        /\ call.ret.tour[1] = call.startCity
        /\ \A a \in 1 .. (n - 1) :
               LET current == call.ret.tour[a]
                   next == call.ret.tour[a + 1]
                   unvisited == Cities(n) \ {call.ret.tour[b] : b \in 1 .. a}
               IN  /\ next \in unvisited
                   /\ \A c \in unvisited :
                          \/ graph[current][next] < graph[current][c]
                          \/ graph[current][next] = graph[current][c] /\ next <= c

\* C11's case: generateTour has returned on four cities, started from
\* another city than 0, and has decided a tie between two unvisited cities
\* on its way.
C11_Witness ==
    /\ n = TestN
    /\ call.fn = "nearestNeighbor"
    /\ call.startCity # 0
    /\ call.ret.kind = "tour"
    /\ Len(call.ret.tour) = n
    /\ \E a \in 1 .. (n - 2) :
           \E c \in Cities(n) \ {call.ret.tour[b] : b \in 1 .. (a + 1)} :
               graph[call.ret.tour[a]][c] = graph[call.ret.tour[a]][call.ret.tour[a + 1]]

(***************************************************************************)
(* Properties of the functions of the points (SpecPoints).                 *)
(***************************************************************************)
\* C12: SonarVisit.generateTour emits every input point exactly once: for
\* every point list with distinct ids and every gridSize >= 1, each point is
\* assigned a bucket index in 0..4*gridSize-1 and its id appears exactly
\* once in the returned tour, so the tour has as many entries as there are
\* points.
C12_SonarVisitsEveryPoint ==
    call.fn = "sonarVisit" =>
        /\ \A p \in 1 .. Len(points) :
               bucketIndex(points[p], call.gridSize) \in 0 .. (angleSteps(call.gridSize) - 1)
        /\ \A p \in 1 .. Len(points) :
               Cardinality({a \in 1 .. Len(call.ret.tour) :
                               call.ret.tour[a] = points[p].id}) = 1
        /\ Len(call.ret.tour) = Len(points)

\* The point of the list whose id is id.
pointOfId(id) == points[CHOOSE p \in 1 .. Len(points) : points[p].id = id]

\* Math.hypot(p.x - center.x, p.y - center.y)
fromCenter(p) == hypot(p.x - center.x, p.y - center.y)

\* C22: the tour returned by SonarVisit.generateTour lists points in
\* non-decreasing bucket index, bucket = floor(normalizedAngle / (2*pi /
\* (4*gridSize))), and any two points of the same bucket appear in
\* non-decreasing distance from the center (0.5, 0.5).
C22_SonarOrder ==
    call.fn = "sonarVisit" =>
        \A a, b \in 1 .. Len(call.ret.tour) :
            a < b =>
                LET first == pointOfId(call.ret.tour[a])
                    second == pointOfId(call.ret.tour[b])
                IN  /\ bucketIndex(first, call.gridSize) <= bucketIndex(second, call.gridSize)
                    /\ bucketIndex(first, call.gridSize) = bucketIndex(second, call.gridSize)
                           => fromCenter(first) <= fromCenter(second)

\* C22's case: the tour holds two points of one bucket that the list gave
\* in decreasing distance, and a point of a later bucket.
C22_Witness ==
    /\ call.fn = "sonarVisit"
    /\ \E p, q \in 1 .. Len(points) :
           /\ p < q
           /\ bucketIndex(points[p], call.gridSize) = bucketIndex(points[q], call.gridSize)
           /\ fromCenter(points[p]) > fromCenter(points[q])
           /\ \E a, b \in 1 .. Len(call.ret.tour) :
                  call.ret.tour[a] = points[p].id /\ call.ret.tour[b] = points[q].id
    /\ \E a, b \in 1 .. Len(call.ret.tour) :
           bucketIndex(pointOfId(call.ret.tour[a]), call.gridSize)
               < bucketIndex(pointOfId(call.ret.tour[b]), call.gridSize)

(***************************************************************************)
(* Properties of Zigzag.optimize (SpecZigzag).                             *)
(***************************************************************************)
\* C13: for every input tour that is a permutation, of any length >= 1,
\* Zigzag.optimize returns a tour with no duplicate ids that contains every
\* id of the input tour: the final dedup removes only repeated emissions, so
\* no id of the input is omitted.
C13_ZigzagKeepsEveryId ==
    (call.fn = "zigzag" /\ Len(call.tourIndices) >= 1) =>
        /\ \A a, b \in 1 .. Len(call.ret.tour) :
               call.ret.tour[a] = call.ret.tour[b] => a = b
        /\ \A p \in 1 .. Len(call.tourIndices) :
               \E a \in 1 .. Len(call.ret.tour) : call.ret.tour[a] = call.tourIndices[p]

\* C14 as stated: for every input tour and point set whose matrix holds the
\* points' pairwise distances, the tour returned by Zigzag.optimize has
\* calculateTourLength <= that of the input tour.
C14_ZigzagNeverWorsens ==
    (call.fn = "zigzag" /\ graph = createDistanceMatrix(points)) =>
        calculateTourLength(call.ret.tour, graph)
            <= calculateTourLength(call.tourIndices, graph)

\* C14 amended: when the sums of the points' distances are not rounded, the
\* tour returned by Zigzag.optimize has calculateTourLength <= that of the
\* input tour, and is strictly shorter when a swap was applied (the returned
\* tour differs from the input, two cities or more).
C14_ZigzagNeverWorsensExactSums ==
    (/\ call.fn = "zigzag"
     /\ graph = createDistanceMatrix(points)
     /\ SumsExact(graph, n)) =>
        /\ calculateTourLength(call.ret.tour, graph)
               <= calculateTourLength(call.tourIndices, graph)
        /\ (Len(call.tourIndices) >= 2 /\ call.ret.tour # call.tourIndices) =>
               calculateTourLength(call.ret.tour, graph)
                   < calculateTourLength(call.tourIndices, graph)

\* C14's case: on the unit square, whose sums are not rounded, optimize has
\* returned the crossed tour with its two middle cities swapped, strictly
\* shorter.
C14_Witness ==
    /\ call.fn = "zigzag"
    /\ points = testPoints
    /\ SumsExact(graph, n)
    /\ call.tourIndices = CrossedTour
    /\ call.ret.tour = <<0, 1, 2, 3>>
    /\ calculateTourLength(call.ret.tour, graph)
           < calculateTourLength(call.tourIndices, graph)

(***************************************************************************)
(* Properties of SimulatedAnnealing.optimize (SpecAnneal).                 *)
(***************************************************************************)
\* t holds the entries of s, each as often as s does, and has its length.
SameEntries(t, s) ==
    /\ Len(t) = Len(s)
    /\ \A c \in {s[a] : a \in 1 .. Len(s)} \cup {t[a] : a \in 1 .. Len(t)} :
           Cardinality({a \in 1 .. Len(t) : t[a] = c}) =
           Cardinality({a \in 1 .. Len(s) : s[a] = c})

\* C15: in SimulatedAnnealing.optimize, for any sequence of random choices,
\* currentTour and bestTour are permutations of initialTour (same ids, each
\* once, same length) after every iteration, so the returned tour is a
\* permutation of the initial tour.
C15_AnnealKeepsPermutation ==
    anneal.pc # "idle" =>
        /\ SameEntries(anneal.currentTour, anneal.initialTour)
        /\ SameEntries(anneal.bestTour, anneal.initialTour)
        /\ IsPermutation(anneal.currentTour, n)
        /\ IsPermutation(anneal.bestTour, n)

\* C15's case: optimize has returned on four cities after two accepted
\* moves, with a best tour that is neither the initial nor the last one.
C15_Witness ==
    /\ n = TestN
    /\ anneal.pc = "done"
    /\ anneal.iter = MaxAnnealIterations
    /\ anneal.bestTour # anneal.initialTour
    /\ anneal.bestTour # anneal.currentTour
    /\ anneal.currentTour # anneal.initialTour

\* C16: SimulatedAnnealing.optimize returns the best tour seen: at every
\* iteration bestLength equals calculateTourLength(bestTour), bestLength <=
\* currentLength and bestLength <= the initial tour's length, and bestLength
\* never grows, so the returned tour is never longer than the initial tour
\* nor than any tour that was current during the run.
C16_AnnealReturnsBestSeen ==
    /\ [](anneal.pc # "idle" =>
              /\ anneal.bestLength = calculateTourLength(anneal.bestTour, graph)
              /\ anneal.currentLength = calculateTourLength(anneal.currentTour, graph)
              /\ anneal.bestLength <= anneal.currentLength
              /\ anneal.bestLength <= calculateTourLength(anneal.initialTour, graph))
    /\ [][anneal.pc # "idle" =>
              /\ anneal'.bestLength <= anneal.bestLength
              /\ anneal'.bestLength <= anneal'.currentLength]_vars

\* C16's case: optimize has returned after an improving move followed by an
\* accepted worsening one: the best tour is shorter than the initial tour
\* and than the last current one.
C16_Witness ==
    /\ anneal.pc = "done"
    /\ anneal.iter = MaxAnnealIterations
    /\ anneal.bestLength < calculateTourLength(anneal.initialTour, graph)
    /\ anneal.bestLength < anneal.currentLength

\* C26: for every index pair (minIdx, maxIdx) an iteration of optimize can
\* draw, the two-edge delta newDist - oldDist equals the true change in tour
\* length, calculateTourLength(tour with segment [minIdx, maxIdx] reversed)
\* - calculateTourLength(current tour), on a symmetric matrix; and the two
\* drawn indices are always distinct.
C26_AnnealDeltaIsTrueChange ==
    (anneal.pc = "for" /\ anneal.iter < anneal.maxIterations
        /\ Len(anneal.currentTour) >= 2 /\ IsSymmetric(graph, n)) =>
        \A pr \in drawnPairs(Len(anneal.currentTour)) :
            /\ pr[1] # pr[2]
            /\ newDist(anneal.currentTour, graph, pr[1], pr[2])
                   - oldDist(anneal.currentTour, graph, pr[1], pr[2])
                 = calculateTourLength(
                       reverseBetween(anneal.currentTour, pr[1], pr[2]), graph)
                   - calculateTourLength(anneal.currentTour, graph)

\* C29: SimulatedAnnealing.optimize always terminates after exactly
\* maxIterations iterations, with no early stop, and multiplies the
\* temperature by coolingRate exactly once in every iteration, accepted or
\* not; an iteration that leaves currentTour as it was (a rejected move) had
\* a drawn pair with delta >= 0, and every other iteration reversed the
\* segment between a drawn pair.
C29_AnnealRunsAllIterations ==
    /\ (anneal.pc = "for") ~> (anneal.pc = "done")
    /\ [](anneal.pc = "done" => anneal.iter = anneal.maxIterations)
    /\ [](anneal.cooled = anneal.iter)
    /\ [][anneal'.iter = anneal.iter + 1 =>
              \E pr \in drawnPairs(Len(anneal.currentTour)) :
                  \/ /\ anneal'.currentTour = anneal.currentTour
                     /\ newDist(anneal.currentTour, graph, pr[1], pr[2])
                            >= oldDist(anneal.currentTour, graph, pr[1], pr[2])
                  \/ anneal'.currentTour
                         = reverseBetween(anneal.currentTour, pr[1], pr[2])]_vars

(***************************************************************************)
(* Properties of GeneticAlgorithm (SpecGenetic).                           *)
(***************************************************************************)
\* C17: in GeneticAlgorithm every individual of every generation is a
\* permutation of 0..n-1: randomTour yields a permutation, crossover of two
\* permutations yields a child with every slot filled (no -1 left) and
\* every city exactly once, for every choice of segment start and end, and
\* mutate preserves the permutation.
C17_GeneticKeepsPermutations ==
    /\ genetic.pc # "idle" =>
           \A a \in 1 .. Len(genetic.population) :
               IsPermutation(genetic.population[a], n)
    /\ genetic.pc = "done" => IsPermutation(genetic.bestTour, n)
    /\ call.fn \in {"randomTour", "crossover", "mutate"} =>
           /\ IsPermutation(call.ret.tour, n)
           /\ \A a \in 1 .. Len(call.ret.tour) : call.ret.tour[a] # -1

\* C17's case: crossover has returned the child of two different parents
\* of four cities, for a segment that is neither empty of the rest nor the
\* whole tour and does not start at the first slot.
C17_Witness ==
    /\ n = TestN
    /\ call.fn = "crossover"
    /\ call.args[1] # call.args[2]
    /\ call.args[3] >= 1
    /\ call.args[4] = call.args[3] + 1
    /\ call.ret.tour # call.args[1]
    /\ call.ret.tour # call.args[2]

\* C18: GeneticAlgorithm.optimize returns a member of the final population
\* whose tour length is <= the length of every tour in the final
\* population.
C18_GeneticReturnsBestOfFinal ==
    genetic.pc = "done" =>
        /\ \E a \in 1 .. Len(genetic.population) :
               genetic.population[a] = genetic.bestTour
        /\ \A a \in 1 .. Len(genetic.population) :
               calculateTourLength(genetic.bestTour, graph)
                   <= calculateTourLength(genetic.population[a], graph)

\* C18's case: optimize has returned, after a generation on the tests'
\* matrix, a tour that is strictly shorter than the elite at index 0.
C18_Witness ==
    /\ genetic.pc = "done"
    /\ graph = SquareGraph
    /\ genetic.gen >= 1
    /\ calculateTourLength(genetic.bestTour, graph)
           < calculateTourLength(genetic.population[1], graph)

\* The least calculateTourLength of the tours of a population.
MinLength(population) ==
    LET lengths == {calculateTourLength(population[a], graph) : a \in 1 .. Len(population)}
    IN  CHOOSE least \in lengths : \A length \in lengths : least <= length

\* The population holds a tour of the least length of `previous`.
KeepsMinimumOf(population, previous) ==
    \E a \in 1 .. Len(population), b \in 1 .. Len(previous) :
        /\ population[a] = previous[b]
        /\ calculateTourLength(previous[b], graph) = MinLength(previous)

\* The population holds a tour of the greatest fitness of `previous`.
KeepsFittestOf(population, previous) ==
    \E a \in 1 .. Len(population), b \in 1 .. Len(previous) :
        /\ population[a] = previous[b]
        /\ \A c \in 1 .. Len(previous) :
               fitness(calculateTourLength(previous[c], graph))
                   <= fitness(calculateTourLength(previous[b], graph))

\* Tours of different lengths have different fitnesses 1 / length.
FitnessTellsLengths(g, k) ==
    LET lengths == {calculateTourLength(t, g) : t \in Perms(k)}
    IN  \A a, b \in lengths : a # b => fitness(a) # fitness(b)

\* C27 as stated: every generation's population has exactly populationSize
\* tours and contains, unchanged, a minimum-length tour of the previous
\* generation, so the minimum tour length over the population never
\* increases from one generation to the next and the returned tour is never
\* longer than the best tour of the initial random population.
C27_GeneticElitism ==
    /\ [](genetic.pc # "idle" => Len(genetic.population) = genetic.populationSize)
    /\ [][genetic'.gen = genetic.gen + 1 =>
              /\ KeepsMinimumOf(genetic'.population, genetic.population)
              /\ MinLength(genetic'.population) <= MinLength(genetic.population)]_vars
    /\ [](genetic.pc = "done" =>
              calculateTourLength(genetic.bestTour, graph) <= MinLength(genetic.drawn))

\* C27 amended: every generation's population has exactly populationSize
\* tours and contains, unchanged, a tour of the greatest fitness 1 / length
\* of the previous generation; on a matrix whose tours of different lengths
\* have different fitnesses this is a minimum-length tour, the minimum tour
\* length never increases from one generation to the next and the returned
\* tour is never longer than the best tour of the initial population.
C27_GeneticElitismByFitness ==
    /\ [](genetic.pc # "idle" => Len(genetic.population) = genetic.populationSize)
    /\ [][genetic'.gen = genetic.gen + 1 =>
              /\ KeepsFittestOf(genetic'.population, genetic.population)
              /\ FitnessTellsLengths(graph, n) =>
                     /\ KeepsMinimumOf(genetic'.population, genetic.population)
                     /\ MinLength(genetic'.population)
                            <= MinLength(genetic.population)]_vars
    /\ [](genetic.pc = "done" /\ FitnessTellsLengths(graph, n) =>
              calculateTourLength(genetic.bestTour, graph) <= MinLength(genetic.drawn))

\* C27's case: optimize has returned after a generation from two drawn
\* tours of which the second was the shorter, on a matrix whose tours of
\* different lengths have different fitnesses.
C27_Witness ==
    /\ genetic.pc = "done"
    /\ genetic.gen >= 1
    /\ genetic.populationSize = 2
    /\ FitnessTellsLengths(graph, n)
    /\ calculateTourLength(genetic.drawn[2], graph)
           < calculateTourLength(genetic.drawn[1], graph)
    /\ genetic.population[1] = genetic.drawn[2]

(***************************************************************************)
(* Properties of calculateMST (SpecMatrix).                                *)
(***************************************************************************)
\* The cities joined to `seen` by the edges of T in at most `steps` hops.
RECURSIVE Joined(_, _, _)
Joined(T, seen, steps) ==
    IF steps = 0 THEN seen
    ELSE Joined(T,
                seen \cup {c \in UNION {{e[1], e[2]} : e \in T} :
                              \E e \in T : c \in {e[1], e[2]} /\ (e[1] \in seen \/ e[2] \in seen)},
                steps - 1)

\* The spanning trees of the complete graph on 0..k-1.
SpanningTrees(k) ==
    {T \in SUBSET Pairs(k) : Cardinality(T) = k - 1 /\ Joined(T, {0}, k) = Cities(k)}

\* The sum of the lengths of the edges of T.
RECURSIVE TreeWeight(_, _)
TreeWeight(T, g) ==
    IF T = {} THEN 0
    ELSE LET e == CHOOSE edge \in T : TRUE
         IN  g[e[1]][e[2]] + TreeWeight(T \ {e}, g)

\* C19: for every symmetric non-negative distance matrix (zero off-diagonal
\* entries allowed), calculateMST returns the weight of a minimum spanning
\* tree of the complete graph, and that value is <= calculateTourLength of
\* every tour over all cities.  Stated on the matrices whose sums are not
\* rounded, where the weight of a tree does not depend on the order of its
\* edges.
C19_MSTIsLowerBound ==
    (call.fn = "calculateMST" /\ IsSymmetric(graph, n) /\ SumsExact(graph, n)) =>
        /\ \E T \in SpanningTrees(n) : call.ret.value = TreeWeight(T, graph)
        /\ \A T \in SpanningTrees(n) : call.ret.value <= TreeWeight(T, graph)
        /\ \A p \in Perms(n) : call.ret.value <= calculateTourLength(p, graph)

(***************************************************************************)
(* Properties of calculateEfficiency (SpecEfficiency).                     *)
(***************************************************************************)
\* A percentage in ratio quanta.
Percent(v) == v * RatioQuanta

\* C20: calculateEfficiency(solutionLength, referenceLength) returns 0
\* whenever solutionLength <= 0 and otherwise referenceLength /
\* solutionLength * 100 (here: within two quanta of a Number of the exact
\* value); efficiency(4, 4) = 100, efficiency(5, 4) = 80, efficiency(0, x)
\* = 0 for any x, and for solutionLength > 0 the result is <= 100 exactly
\* when referenceLength <= solutionLength.
C20_Efficiency ==
    call.fn = "calculateEfficiency" =>
        LET solutionLength == call.args[1]
            referenceLength == call.args[2]
            efficiency == call.ret.value
            exact == (100 * referenceLength * RatioQuanta) \div solutionLength
        IN  /\ solutionLength <= 0 => efficiency = 0
            /\ (solutionLength > 0 /\ solutionLength <= MaxLength) =>
                   /\ efficiency - exact <= 2 * Spacing(exact, 1)
                   /\ exact - efficiency <= 2 * Spacing(exact, 1)
            /\ (solutionLength = 4 /\ referenceLength = 4) => efficiency = Percent(100)
            /\ (solutionLength = 5 /\ referenceLength = 4) => efficiency = Percent(80)
            /\ solutionLength > 0 =>
                   (efficiency <= Percent(100) <=> referenceLength <= solutionLength)

\* C20's case: the reference is the Number next above the solution's
\* length, both with all their significant bits, and the efficiency has
\* come out above 100.
C20_Witness ==
    /\ call.fn = "calculateEfficiency"
    /\ call.args[1] >= Pow2(Precision - 1)
    /\ call.args[2] = call.args[1] + 1
    /\ call.ret.value > Percent(100)

(***************************************************************************)
(* Properties of calculateTourLength (SpecTourLength).                     *)
(***************************************************************************)
\* The tour T started k places later.
rotate(T, k) == [p \in 1 .. Len(T) |-> T[((p - 1 + k) % Len(T)) + 1]]

\* The last pass of the loop adds the edge from the last element of the
\* tour to the first.
WrapAroundAdded(T, total) ==
    total = Plus(TourSumOpen(T, graph, 0, 0), graph[T[Len(T)]][T[1]])

\* C21 as stated: calculateTourLength(rotate(T, k), graph) equals
\* calculateTourLength(T, graph) for every tour T and rotation offset k,
\* and the sum includes the wrap-around edge from the last element to the
\* first.
C21_TourLengthRotation ==
    call.fn = "calculateTourLength" =>
        /\ \A k \in 0 .. (n - 1) :
               calculateTourLength(rotate(call.tourIndices, k), graph) = call.ret.value
        /\ WrapAroundAdded(call.tourIndices, call.ret.value)

\* C21 amended: on a matrix whose sums are not rounded,
\* calculateTourLength(rotate(T, k), graph) equals calculateTourLength(T,
\* graph) for every tour T and rotation offset k; on every matrix the sum
\* includes the wrap-around edge from the last element to the first.
C21_TourLengthRotationExactSums ==
    call.fn = "calculateTourLength" =>
        /\ SumsExact(graph, n) =>
               \A k \in 0 .. (n - 1) :
                   calculateTourLength(rotate(call.tourIndices, k), graph) = call.ret.value
        /\ WrapAroundAdded(call.tourIndices, call.ret.value)

\* C21's case: the length of a tour of four edges of which the first and
\* the last differ, on a matrix whose sums are not rounded.
C21_Witness ==
    /\ call.fn = "calculateTourLength"
    /\ SumsExact(graph, n)
    /\ n = TestN
    /\ graph[call.tourIndices[1]][call.tourIndices[2]]
           # graph[call.tourIndices[n]][call.tourIndices[1]]
    /\ graph[call.tourIndices[n]][call.tourIndices[1]] > 0

(***************************************************************************)
(* Properties of heldKarp's tables (SpecHeldKarp).                         *)
(***************************************************************************)
\* The cities of a mask.
CitiesOf(mask) == {c \in 1 .. (n - 1) : HasBit(mask, c)}

\* The cost of the path 0, path[1], ..., path[upto], added from city 0 on.
RECURSIVE PathCost(_, _)
PathCost(path, upto) ==
    IF upto = 0 THEN 0
    ELSE Plus(PathCost(path, upto - 1),
              graph[IF upto = 1 THEN 0 ELSE path[upto - 1]][path[upto]])

\* The paths that start at city 0, visit exactly the cities of S and end at j.
PathsTo(S, j) == {path \in PermsOf(S) : path[Len(path)] = j}

\* The keys (S, j), j in S, of the subsets S of 1..n-1 of 1 to most cities.
KeysUpTo(most) ==
    {key \in (1 .. (fullMask(n))) \X (1 .. (n - 1)) :
        /\ key[1] % 2 = 0
        /\ HasBit(key[1], key[2])
        /\ Cardinality(CitiesOf(key[1])) <= most}

\* C25: in heldKarp subsets are processed in increasing size, so whenever
\* the entry for (S, j) is computed the entries for (S \ {j}, k) exist for
\* every k in S \ {j} (no dp lookup ever misses), and each stored value
\* equals the minimum cost of a path that starts at city 0, visits exactly
\* the cities of S and ends at j, with parent(S, j) the predecessor on such
\* a path.
C25_HeldKarpTables ==
    (search.kind = "rounds" /\ n >= 2) =>
        LET dp == search.tables.dp
            parent == search.tables.parent
        IN  /\ search.missed = {}
            /\ DOMAIN dp = KeysUpTo(search.size - 1)
            /\ DOMAIN parent = DOMAIN dp
            /\ \A key \in DOMAIN dp :
                   /\ \E path \in PathsTo(CitiesOf(key[1]), key[2]) :
                          /\ PathCost(path, Len(path)) = dp[key]
                          /\ parent[key] = IF Len(path) = 1 THEN 0
                                           ELSE path[Len(path) - 1]
                   /\ \A path \in PathsTo(CitiesOf(key[1]), key[2]) :
                          dp[key] <= PathCost(path, Len(path))

\* C25's case: the size loop has ended on four cities, and the table holds
\* an entry of three cities whose value the order of the first two decides.
C25_Witness ==
    /\ search.kind = "rounds"
    /\ n = TestN
    /\ search.size = n
    /\ \E key \in DOMAIN search.tables.dp :
           /\ Cardinality(CitiesOf(key[1])) = 3
           /\ \E path \in PathsTo(CitiesOf(key[1]), key[2]) :
                  search.tables.dp[key] < PathCost(path, Len(path))

(***************************************************************************)
(* The caller's arrays.  The caller holds a point list, its distance       *)
(* matrix and two tours (call.held, the second is the first started one    *)
(* city later), and makes one call: a constructor on the points, an        *)
(* improver on the first tour, crossover on both tours, mutate on the      *)
(* first, or a solver or utility on the matrix.  Every                     *)
(* function works on a copy: [...tour] in improve, optimize and mutate,    *)
(* [...points] in AngularSort, tourIndices.map in Zigzag, new Array(n) in  *)
(* crossover, the buckets in SonarVisit.                                   *)
(***************************************************************************)
\* The generated lists whose first point is the upper left position.
InputPointLists == {pts \in PointLists : pts[1].x < pts[1].y}

\* Nothing has been called yet.
Fresh ==
    /\ call.fn = "none"
    /\ \A h \in Heuristics : ~called(h)
    /\ stack = <<>>
    /\ \A e \in Entries : exactRet[e] = NoValue

InitInputs ==
    /\ \E pts \in InputPointLists :
           /\ points = pts
           /\ n = Len(pts)
           /\ graph = createDistanceMatrix(pts)
    /\ ExactIdle
    /\ twoOpt = TwoOptIdle
    /\ greedy = GreedyIdle
    /\ anneal = AnnealIdle
    /\ genetic = GeneticIdle
    /\ \E tour \in InputTours(n) :
           call = [NoCall EXCEPT !.held = <<tour, rotate(tour, 1)>>]

NextInputs ==
    \/ (Fresh /\ SonarVisitCall)
    \/ (Fresh /\ AngularSortCall)
    \/ (Fresh /\ NearestNeighborCall)
    \/ (Fresh /\ ZigzagCall /\ call'.tourIndices = call.held[1])
    \/ (Fresh /\ CalculateTourLengthCall /\ call'.tourIndices = call.held[1])
    \/ (Fresh /\ CalculateMSTCall)
    \/ (Fresh /\ CrossoverCall /\ call'.args[1] = call.held[1]
                               /\ call'.args[2] = call.held[2])
    \/ (Fresh /\ MutateCall /\ call'.args[1] = call.held[1])
    \/ (Fresh /\ GreedyCall)
    \/ GreedyScanEnd
    \/ GreedyRejectDegree
    \/ GreedyRejectCycle
    \/ GreedyAccept
    \/ GreedyWalk
    \/ (Fresh /\ TwoOptCall /\ twoOpt'.tour = call.held[1])
    \/ TwoOptPass
    \/ TwoOptSkip
    \/ TwoOptKeep
    \/ TwoOptReverse
    \/ TwoOptReturn
    \/ (Fresh /\ AnnealCall /\ anneal'.initialTour = call.held[1])
    \/ AnnealThrow
    \/ AnnealAccept
    \/ AnnealReject
    \/ AnnealReturn
    \/ (Fresh /\ GeneticCall)
    \/ GeneticGeneration
    \/ GeneticReturn
    \/ (Fresh /\ CallBruteForceExact)
    \/ BruteForceReturn
    \/ (Fresh /\ CallHeldKarp)
    \/ HeldKarpReturn

SpecInputs == InitInputs /\ [][NextInputs]_vars

\* The array a function was given is the array the caller holds.
GivenIsHeld ==
    /\ twoOpt.pc # "idle" => twoOpt.tour = call.held[1]
    /\ anneal.pc # "idle" => anneal.initialTour = call.held[1]
    /\ call.fn \in {"zigzag", "calculateTourLength"} => call.tourIndices = call.held[1]
    /\ call.fn = "crossover" => call.args[1] = call.held[1] /\ call.args[2] = call.held[2]
    /\ call.fn = "mutate" => call.args[1] = call.held[1]

\* C28: no algorithm mutates its inputs.  No step of any call changes the
\* tours the caller holds, the points array or its order, or the distance
\* matrix, and the tour a running or returned improve, Zigzag.optimize,
\* SimulatedAnnealing.optimize, crossover or mutate was given is still the
\* caller's tour, whatever tour the function has built or returned.
C28_InputsUnchanged ==
    /\ [][/\ call'.held = call.held
          /\ points' = points
          /\ graph' = graph]_vars
    /\ []GivenIsHeld

\* improve has returned a tour other than the one it was given, and so has
\* each of the others in some behaviour; here it is improve.
C28_Witness ==
    /\ twoOpt.pc = "done"
    /\ twoOpt.reversals > 0
    /\ twoOpt.currentTour # twoOpt.tour
    /\ twoOpt.tour = call.held[1]

====
